---- MODULE Spec2Model ----
(***************************************************************************)
(* LLMDog: the file-tree state machine of the terminal file selector.      *)
(* The state is the Model struct of the model package (items, the list     *)
(* widget's items, the loading flag, the error list, the search mode), the *)
(* load commands in flight between Update and the Bubble Tea runtime, and  *)
(* the part of the file system the program reads.                          *)
(*                                                                         *)
(* Strings (paths, names, queries) are sequences of byte values, so that   *)
(* filepath.Dir, strings.HasPrefix, strings.Contains, strings.ToLower and  *)
(* the byte-wise order of sort.Slice are computed as the Go code computes  *)
(* them.                                                                   *)
(***************************************************************************)
EXTENDS Integers, Sequences, FiniteSets, Bags, TLC

\* ------------------------------------------------------------------ bounds
\* at most this many lazy loads are outstanding (dispatched, not yet consumed)
MaxInFlight == 2
\* at most this many entries in the error list
MaxErrors == 1
\* entries of the search history
MaxHistory == 2

\* ------------------------------------------------------------ byte strings
Sep == 47
Dot == 46

Max(S) == CHOOSE x \in S : \A y \in S : y <= x

HasPrefix(s, p) == Len(p) <= Len(s) /\ SubSeq(s, 1, Len(p)) = p

HasSuffix(s, p) == Len(p) <= Len(s) /\ SubSeq(s, Len(s) - Len(p) + 1, Len(s)) = p

Contains(s, sub) ==
  \E i \in 0..(Len(s) - Len(sub)) : SubSeq(s, i + 1, i + Len(sub)) = sub

ToLower(s) == [i \in 1..Len(s) |-> IF s[i] \in 65..90 THEN s[i] + 32 ELSE s[i]]

\* byte-wise lexicographic order of Go's string <
StrLess(a, b) ==
  \/ Len(a) < Len(b) /\ SubSeq(b, 1, Len(a)) = a
  \/ \E k \in 1..Len(a) :
       /\ k <= Len(b)
       /\ SubSeq(a, 1, k - 1) = SubSeq(b, 1, k - 1)
       /\ a[k] < b[k]

SepCount(s) == Cardinality({i \in 1..Len(s) : s[i] = Sep})

\* filepath.Dir on a cleaned path
filepathDir(p) ==
  LET seps == {i \in 1..Len(p) : p[i] = Sep}
  IN  IF seps = {} THEN <<Dot>>
      ELSE IF Max(seps) = 1 THEN <<Sep>>
      ELSE SubSeq(p, 1, Max(seps) - 1)

\* filepath.Base / os.FileInfo.Name on a cleaned path
filepathBase(p) ==
  LET seps == {i \in 1..Len(p) : p[i] = Sep}
  IN  IF seps = {} THEN p ELSE SubSeq(p, Max(seps) + 1, Len(p))

Join(dir, name) == dir \o <<Sep>> \o name

\* strings.HasPrefix(path, parentPath+string(os.PathSeparator))
hasDirPrefix(path, parentPath) == HasPrefix(path, parentPath \o <<Sep>>)


\* ------------------------------------------------------------- file system
\* the working directory "/w" and the nodes that may exist under it
cwd == <<Sep, 119>>

pA    == Join(cwd, <<97>>)                   \* /w/a          directory
pAM   == Join(pA, <<77, 97, 46, 103, 111>>)  \* /w/a/Ma.go
pAD   == Join(pA, <<100>>)                   \* /w/a/d        directory
pADX  == Join(pAD, <<120>>)                  \* /w/a/d/x      ignored directory
pADXG == Join(pADX, <<103>>)                 \* /w/a/d/x/g    below the ignored directory
pADT  == Join(pAD, <<120, 46, 116>>)         \* /w/a/d/x.t    ignored file, created at run time on one disk
pADN  == Join(pAD, <<110, 46, 71, 111>>)     \* /w/a/d/n.Go   created while the program runs
pADG  == Join(pAD, <<103, 111>>)              \* /w/a/d/go
pU    == Join(cwd, <<117>>)                  \* /w/u          directory that cannot be read
pH    == Join(cwd, <<46, 104>>)              \* /w/.h         hidden file

DirPaths == {pA, pAD, pADX, pU}
Unreadable == {pU}
\* the disks the program is started on, and the files created while it runs
InitialFs == {pA, pAM, pAD, pADX, pADXG, pADT, pU, pH}
SmallFs == {pA, pAM, pAD, pADT, pH}
SelFs == {pA, pAM, pAD, pH}
\* the disk of the custom search: /w/a/d holds a file whose name is "go"
CustomFs == {pA, pAM, pAD, pADG, pH}
LatePaths == {pADN, pADT}

\* filepath.Rel(root, path) for a path at or below root
Rel(root, path) ==
  IF path = root THEN <<Dot>> ELSE SubSeq(path, Len(root) + 2, Len(path))

\* len(strings.Split(s, "/"))
SplitLen(s) == SepCount(s) + 1

\* the string functions, tabulated once over the paths of the disk
KnownPaths == InitialFs \cup SmallFs \cup SelFs \cup CustomFs \cup LatePaths
DirTable == [p \in KnownPaths |-> filepathDir(p)]
BaseTable == [p \in KnownPaths |-> filepathBase(p)]
UnderTable == {pq \in KnownPaths \X KnownPaths : hasDirPrefix(pq[1], pq[2])}
LessTable == {pq \in KnownPaths \X KnownPaths : StrLess(pq[1], pq[2])}

Dir(p) == IF p \in KnownPaths THEN DirTable[p] ELSE filepathDir(p)
Base(p) == IF p \in KnownPaths THEN BaseTable[p] ELSE filepathBase(p)
PathLess(p, q) ==
  IF p \in KnownPaths /\ q \in KnownPaths THEN <<p, q>> \in LessTable ELSE StrLess(p, q)

\* the lines of .gitignore, as ParseGitignore turns them into one regexp:
\* each line is quoted, so a line without '*' matches as a substring
IgnorePatterns == {<<120>>}
IgnoredTable == {p \in KnownPaths : \E pat \in IgnorePatterns : Contains(p, pat)}

showHidden == FALSE

VARIABLES
  fs,          \* paths that exist on disk
  items,       \* Model.items
  list,        \* the items held by Model.list (list.Items())
  isLoading,   \* Model.isLoading
  errors,      \* Model.errors (the failing directory of each error)
  cmds,        \* load commands returned by toggleExpansion whose message
               \* Update has not consumed yet (bag of directory paths)
  merged,      \* the childrenLoadedMsg values Update has consumed so far
  filtering,   \* list.FilterState() == list.Filtering
  contentSearchMode,  \* Model.contentSearchMode
  last,        \* the operation that led to this state
  searchHistory,       \* Model.searchHistory
  searchHistoryIndex,  \* Model.searchHistoryIndex
  bookmarkStore,       \* Model.bookmarkStore.Bookmarks (Name, FilePaths)
  showBookmarksMenu,   \* Model.showBookmarksMenu
  showTextInputModal,  \* Model.showTextInputModal
  textInputPurpose,    \* Model.textInputPurpose
  tempBookmarkName,    \* Model.tempBookmarkName
  savedFrom    \* history: for each bookmark the program saved, the selection
               \* and the entries of the store at the time

history == <<searchHistory, searchHistoryIndex>>

dialogs == <<bookmarkStore, showBookmarksMenu, showTextInputModal,
             textInputPurpose, tempBookmarkName, savedFrom>>

vars == <<fs, items, list, isLoading, errors, cmds, merged, filtering,
          contentSearchMode, last, history, dialogs>>

\* Update handles a key in the text input modal if it is shown, else in the
\* bookmarks menu if it is shown, else in the filter if the list is
\* filtering, else as a regular key
Filtering == ~showTextInputModal /\ ~showBookmarksMenu /\ filtering

Regular == ~showTextInputModal /\ ~showBookmarksMenu /\ ~filtering

\* ------------------------------------------------------------------ helpers
\* git.ParseGitignore + Model.isGitIgnored
isGitIgnored(path) ==
  IF path \in KnownPaths THEN path \in IgnoredTable
  ELSE \E pat \in IgnorePatterns : Contains(path, pat)

isHiddenFile(name) == HasPrefix(name, <<Dot>>)

FileItem(path, depth) ==
  [Path |-> path, Name |-> Base(path), IsDir |-> path \in DirPaths,
   Selected |-> FALSE, Depth |-> depth, Expanded |-> FALSE,
   GitIgnored |-> isGitIgnored(path), ChildrenLoaded |-> FALSE,
   MatchesContent |-> FALSE]

\* the elements of a set of strings in byte-wise order
RECURSIVE SortedPaths(_)
SortedPaths(S) ==
  IF S = {} THEN <<>>
  ELSE LET m == CHOOSE x \in S : \A y \in S \ {x} : PathLess(x, y)
       IN  <<m>> \o SortedPaths(S \ {m})

\* os.ReadDir: the entries of a directory, sorted by file name
ReadDir(f, dirPath) == SortedPaths({p \in f : Dir(p) = dirPath})

\* filepath.Walk with the callback of ui.LoadFiles
RECURSIVE WalkFrom(_, _, _)
WalkFrom(f, root, dirPath) ==
  LET entries == IF dirPath \in Unreadable THEN <<>> ELSE ReadDir(f, dirPath)
      Visit(p) ==
        IF ~showHidden /\ isHiddenFile(Base(p)) THEN <<>>
        ELSE <<FileItem(p, SplitLen(Rel(root, p)) - 1)>> \o
             (IF p \in DirPaths /\ ~isGitIgnored(p)
                THEN WalkFrom(f, root, p) ELSE <<>>)
      RECURSIVE Cat(_)
      Cat(k) == IF k > Len(entries) THEN <<>> ELSE Visit(entries[k]) \o Cat(k + 1)
  IN  Cat(1)

\* LoadFiles that lists the entries of the root only
LoadFiles_m(f, root) ==
  SelectSeq(WalkFrom(f, root, root), LAMBDA it : Dir(it.Path) = root)

LoadFiles(f, root) == WalkFrom(f, root, root)

\* ui.LoadDirectoryChildren, the loop over the entries: one item per entry
RECURSIVE ChildItems(_, _)
ChildItems(paths, baseDepth) ==
  IF paths = <<>> THEN <<>>
  ELSE <<FileItem(Head(paths), baseDepth)>> \o ChildItems(Tail(paths), baseDepth)

\* ui.LoadDirectoryChildren: [err, children]
LoadDirectoryChildren(f, dirPath) ==
  IF dirPath \in Unreadable \/ dirPath \notin f
    THEN [err |-> TRUE, children |-> <<>>]
    ELSE LET entries == ReadDir(f, dirPath)
             rel == Rel(dirPath, dirPath)
             baseDepth == IF SplitLen(rel) = 0 THEN 1 ELSE SplitLen(rel)
             kept == SelectSeq(entries, LAMBDA p : showHidden \/ ~isHiddenFile(Base(p)))
         IN  [err |-> FALSE, children |-> ChildItems(kept, baseDepth)]

\* index of the first item with this path, 0 if there is none
FindPath(its, path) ==
  LET S == {i \in 1..Len(its) : its[i].Path = path}
  IN  IF S = {} THEN 0 ELSE CHOOSE i \in S : \A j \in S : i <= j

\* index of the first directory item with this path, 0 if there is none
FindDir(its, path) ==
  LET S == {i \in 1..Len(its) : its[i].Path = path /\ its[i].IsDir}
  IN  IF S = {} THEN 0 ELSE CHOOSE i \in S : \A j \in S : i <= j

PathsOf(its) == {its[i].Path : i \in 1..Len(its)}

\* Model.isVisible
RECURSIVE ParentsExpanded(_, _)
ParentsExpanded(its, parentPath) ==
  IF parentPath = cwd \/ parentPath = <<Dot>> THEN TRUE
  ELSE LET i == FindDir(its, parentPath)
       IN  IF i = 0 THEN FALSE
           ELSE IF ~its[i].Expanded THEN FALSE
           ELSE ParentsExpanded(its, Dir(parentPath))

\* isVisible that looks at the directory holding the entry only
isVisible_m(its, item) ==
  IF item.Depth = 0 THEN TRUE
  ELSE LET i == FindDir(its, Dir(item.Path))
       IN  Dir(item.Path) = cwd \/ (i # 0 /\ its[i].Expanded)

isVisible(its, item) ==
  IF item.Depth = 0 THEN TRUE ELSE ParentsExpanded(its, Dir(item.Path))

\* refreshVisibleItems if it showed the visible entries in the order of their
\* paths, each directory followed by its entries
VisibleItems_m(its) ==
  LET vis == SelectSeq(its, LAMBDA it : isVisible(its, it))
      sorted == SortedPaths(PathsOf(vis))
  IN  SelectSeq([k \in 1..Len(sorted) |-> vis[FindPath(vis, sorted[k])]],
                LAMBDA it : TRUE)

\* Model.refreshVisibleItems: the new items of the list widget
\* (re-marking the already selected items as selected changes nothing)
VisibleItems(its) == SelectSeq(its, LAMBDA it : isVisible(its, it))

\* ---------------------------------------------------------------- selection
Under(path, parentPath) ==
  IF path \in KnownPaths /\ parentPath \in KnownPaths
    THEN <<path, parentPath>> \in UnderTable
    ELSE hasDirPrefix(path, parentPath)

\* Model.getAllDescendants, as indices into items
getAllDescendants(its, parentPath) ==
  {i \in 1..Len(its) : Under(its[i].Path, parentPath)}

\* areAllDescendantsSelected that counts the ignored descendants too
areAllDescendantsSelected_c(its, parentPath) ==
  LET descendants == getAllDescendants(its, parentPath)
  IN  IF descendants = {} THEN FALSE
      ELSE \A d \in descendants : its[FindPath(its, its[d].Path)].Selected

\* Model.areAllDescendantsSelected
areAllDescendantsSelected(its, parentPath) ==
  LET descendants == getAllDescendants(its, parentPath)
  IN  IF descendants = {} THEN FALSE
      ELSE \A d \in descendants :
             \/ isGitIgnored(its[d].Path)
             \/ its[FindPath(its, its[d].Path)].Selected

\* the items with Selected set to a value at every index of a set
RECURSIVE SetSelected(_, _, _)
SetSelected(its, idx, selected) ==
  IF idx = {} THEN its
  ELSE LET i == CHOOSE x \in idx : TRUE
       IN  SetSelected([its EXCEPT ![i].Selected = selected], idx \ {i}, selected)

\* setSelectionStateForDescendants that reaches the direct children only
setSelectionStateForDescendants_m(its, parentPath, selected) ==
  SetSelected(its,
              {i \in 1..Len(its) :
                 Dir(its[i].Path) = parentPath /\ ~isGitIgnored(its[i].Path)},
              selected)

\* Model.setSelectionStateForDescendants
setSelectionStateForDescendants(its, parentPath, selected) ==
  SetSelected(its,
              {i \in 1..Len(its) :
                 Under(its[i].Path, parentPath) /\ ~isGitIgnored(its[i].Path)},
              selected)

\* updateParentSelectionState that also pushes the recomputed value of a
\* directory down to the entries below it
RECURSIVE updateParentSelectionState_d(_, _)
updateParentSelectionState_d(its, childPath) ==
  LET parentPath == Dir(childPath)
      i == FindDir(its, parentPath)
      v == areAllDescendantsSelected(its, parentPath)
  IN  IF parentPath = cwd THEN its
      ELSE IF i = 0 THEN its
      ELSE updateParentSelectionState_d(
             setSelectionStateForDescendants(
               [its EXCEPT ![i].Selected = v], parentPath, v),
             parentPath)

\* updateParentSelectionState that stops at the directory holding the entry
updateParentSelectionState_m(its, childPath) ==
  LET parentPath == Dir(childPath)
      i == FindDir(its, parentPath)
  IN  IF parentPath = cwd THEN its
      ELSE IF i = 0 THEN its
      ELSE [its EXCEPT ![i].Selected = areAllDescendantsSelected(its, parentPath)]

\* Model.updateParentSelectionState
RECURSIVE updateParentSelectionState(_, _)
updateParentSelectionState(its, childPath) ==
  LET parentPath == Dir(childPath)
      i == FindDir(its, parentPath)
  IN  IF parentPath = cwd THEN its
      ELSE IF i = 0 THEN its
      ELSE updateParentSelectionState(
             [its EXCEPT ![i].Selected = areAllDescendantsSelected(its, parentPath)],
             parentPath)

\* toggleSelection without the early return on ignored paths
toggleSelection_m(its, path, force, forceValue) ==
  LET i == FindPath(its, path)
  IN  IF i = 0 THEN [items |-> its, refreshed |-> FALSE]
      ELSE LET set ==
                 IF its[i].IsDir
                   THEN IF (its[i].Selected /\ ~force) \/ (force /\ ~forceValue)
                          THEN setSelectionStateForDescendants(
                                 [its EXCEPT ![i].Selected = FALSE], path, FALSE)
                          ELSE setSelectionStateForDescendants(
                                 [its EXCEPT ![i].Selected = TRUE], path, TRUE)
                   ELSE IF force THEN [its EXCEPT ![i].Selected = forceValue]
                        ELSE [its EXCEPT ![i].Selected = ~its[i].Selected]
           IN  [items |-> updateParentSelectionState(set, path), refreshed |-> TRUE]

\* Model.toggleSelection up to the refresh of the list: the new items, and
\* whether the function got as far as refreshVisibleItems
toggleSelection(its, path, force, forceValue) ==
  LET i == FindPath(its, path)
  IN  IF i = 0 \/ isGitIgnored(path) THEN [items |-> its, refreshed |-> FALSE]
      ELSE LET set ==
                 IF its[i].IsDir
                   THEN IF (its[i].Selected /\ ~force) \/ (force /\ ~forceValue)
                          THEN setSelectionStateForDescendants(
                                 [its EXCEPT ![i].Selected = FALSE], path, FALSE)
                          ELSE setSelectionStateForDescendants(
                                 [its EXCEPT ![i].Selected = TRUE], path, TRUE)
                   ELSE IF force THEN [its EXCEPT ![i].Selected = forceValue]
                        ELSE [its EXCEPT ![i].Selected = ~its[i].Selected]
           IN  [items |-> updateParentSelectionState(set, path), refreshed |-> TRUE]

\* toggleSelection(path, true) for each path of a sequence, in order
RECURSIVE selectEach(_, _, _)
selectEach(st, paths, k) ==
  IF k > Len(paths) THEN st
  ELSE LET r == toggleSelection(st.items, paths[k], TRUE, TRUE)
       IN  selectEach([items |-> r.items, refreshed |-> st.refreshed \/ r.refreshed],
                      paths, k + 1)

PathSeq(its) == [i \in 1..Len(its) |-> its[i].Path]

\* Update's case "tab" if toggleSelection did not refresh the list
KeyTab_n ==
  /\ Regular
  /\ \E k \in 1..Len(list) :
       LET r == toggleSelection(items, list[k].Path, FALSE, FALSE)
       IN  /\ items' = r.items
           /\ last' = [op |-> "toggle", path |-> list[k].Path,
                       paths |-> {list[k].Path}, flag |-> r.refreshed]
  /\ UNCHANGED <<fs, list, isLoading, errors, cmds, merged, filtering,
                 contentSearchMode,
                 history, dialogs>>

\* Update, case "tab": toggleSelection of the item under the cursor
KeyTab ==
  /\ Regular
  /\ \E k \in 1..Len(list) :
       LET r == toggleSelection(items, list[k].Path, FALSE, FALSE)
       IN  /\ items' = r.items
           /\ list' = (IF r.refreshed THEN VisibleItems(r.items) ELSE list)
           /\ last' = [op |-> "toggle", path |-> list[k].Path,
                       paths |-> {list[k].Path}, flag |-> r.refreshed]
  /\ UNCHANGED <<fs, isLoading, errors, cmds, merged, filtering, contentSearchMode,
                 history, dialogs>>

\* selectAll that toggles each item of the list instead of forcing TRUE
selectAll_m(its, lst) ==
  LET paths == SelectSeq(PathSeq(lst), LAMBDA p : ~isGitIgnored(p))
      RECURSIVE each(_, _)
      each(st, k) ==
        IF k > Len(paths) THEN st
        ELSE each([items |-> toggleSelection(st.items, paths[k], FALSE, FALSE).items,
                   refreshed |-> TRUE], k + 1)
  IN  each([items |-> its, refreshed |-> FALSE], 1)

\* Model.selectAll, Update case "ctrl+a"
selectAll(its, lst) ==
  selectEach([items |-> its, refreshed |-> FALSE],
             SelectSeq(PathSeq(lst), LAMBDA p : ~isGitIgnored(p)), 1)

KeyCtrlA ==
  /\ Regular
  /\ LET r == selectAll(items, list)
     IN  /\ items' = r.items
         /\ list' = (IF r.refreshed THEN VisibleItems(r.items) ELSE list)
         /\ last' = [op |-> "selectAll", path |-> <<>>,
                     paths |-> {p \in PathsOf(list) : ~isGitIgnored(p)},
                     flag |-> r.refreshed]
  /\ UNCHANGED <<fs, isLoading, errors, cmds, merged, filtering, contentSearchMode,
                 history, dialogs>>

\* deselectAll that clears the visible entries only
deselectAll_m(its) ==
  SetSelected(its, {i \in 1..Len(its) : isVisible(its, its[i])}, FALSE)

\* Model.deselectAll, Update case "ctrl+d"
deselectAll(its) == SetSelected(its, 1..Len(its), FALSE)

KeyCtrlD ==
  /\ Regular
  /\ items' = deselectAll(items)
  /\ list' = VisibleItems(deselectAll(items))
  /\ last' = [op |-> "deselectAll", path |-> <<>>, paths |-> PathsOf(items),
              flag |-> TRUE]
  /\ UNCHANGED <<fs, isLoading, errors, cmds, merged, filtering, contentSearchMode,
                 history, dialogs>>

\* the extensions handed to selectByExtension
Extensions == {<<103, 111>>, <<46, 103, 111>>, <<46, 71, 79>>, <<116>>}  \* "go", ".go", ".GO", "t"

\* selectByExtension that compares the suffix without lowering the case
selectByExtension_m(its, ext) ==
  LET dotted == IF HasPrefix(ext, <<Dot>>) THEN ext ELSE <<Dot>> \o ext
      hits == SelectSeq(its, LAMBDA it : ~it.IsDir /\ HasSuffix(it.Path, dotted))
  IN  selectEach([items |-> its, refreshed |-> FALSE], PathSeq(hits), 1)

\* Model.selectByExtension
selectByExtension(its, ext) ==
  LET dotted == IF HasPrefix(ext, <<Dot>>) THEN ext ELSE <<Dot>> \o ext
      hits == SelectSeq(its, LAMBDA it :
                ~it.IsDir /\ HasSuffix(ToLower(it.Path), ToLower(dotted)))
  IN  selectEach([items |-> its, refreshed |-> FALSE], PathSeq(hits), 1)

SelectByExtension ==
  /\ ~filtering
  /\ \E ext \in Extensions :
       LET r == selectByExtension(items, ext)
       IN  /\ items' = r.items
           /\ list' = (IF r.refreshed THEN VisibleItems(r.items) ELSE list)
           /\ last' = [op |-> "selectByExtension", path |-> ext,
                       paths |-> {p \in PathsOf(items) :
                                    /\ FindDir(items, p) = 0
                                    /\ ~isGitIgnored(p)
                                    /\ HasSuffix(ToLower(p), ToLower(
                                         IF HasPrefix(ext, <<Dot>>) THEN ext
                                         ELSE <<Dot>> \o ext))},
                       flag |-> r.refreshed]
  /\ UNCHANGED <<fs, isLoading, errors, cmds, merged, filtering, contentSearchMode,
                 history, dialogs>>

\* ------------------------------------------------------------------- search
\* what os.Stat and os.ReadFile return for the files of the tree
FileContent(p) ==
  IF p \in {pAM, pADT, pADXG} THEN <<113>>                     \* "q"
  ELSE IF p = pADN THEN <<113, 120>>                           \* "qx"
  ELSE <<>>

\* x.t and g are files of 2 MB, of which FileContent gives the part that
\* matters to a search
FileSize(p) ==
  IF p \in {pADT, pADXG} THEN 2 * 1024 * 1024 ELSE Len(FileContent(p))

MaxContentSize == 1024 * 1024

\* the queries typed into the filter: "", "a", "x", "q", "."
Queries == {<<>>, <<97>>, <<120>>, <<113>>, <<Dot>>}

\* the synchronous load of ensureParentPathsExpanded that appends every loaded
\* child, known or not
appendLoaded_m(ex, i, r) ==
  IF ex[i].ChildrenLoaded \/ r.err THEN ex
  ELSE [ex EXCEPT ![i].ChildrenLoaded = TRUE] \o r.children

\* Model.ensureParentPathsExpanded, the synchronous load: the children the
\* store lacks are appended to the store ex, whose directory i is not loaded
appendLoaded(ex, i, r) ==
  IF ex[i].ChildrenLoaded \/ r.err THEN ex
  ELSE [ex EXCEPT ![i].ChildrenLoaded = TRUE] \o
       SelectSeq(r.children, LAMBDA c : c.Path \notin PathsOf(ex))

\* Model.ensureParentPathsExpanded, the loop over the items: the directory is
\* expanded and loaded
expandDir(up, f, dir) ==
  LET i == FindDir(up, dir)
  IN  IF i = 0 THEN up
      ELSE appendLoaded([up EXCEPT ![i].Expanded = TRUE], i,
                        LoadDirectoryChildren(f, dir))

\* Model.ensureParentPathsExpanded
RECURSIVE ensureParentPathsExpanded(_, _, _)
ensureParentPathsExpanded(its, f, path) ==
  IF Dir(path) = cwd \/ Dir(path) = <<Dot>> THEN its
  ELSE expandDir(ensureParentPathsExpanded(its, f, Dir(path)), f, Dir(path))

\* Model.performSearch, the body of "if matched": the item is put in
\* foundPaths and a copy of it, taken after its parents were expanded, is
\* appended to the results
recordMatch(expandedItems, st, i) ==
  [items |-> expandedItems,
   results |-> Append(st.results, expandedItems[i]),
   foundPaths |-> st.foundPaths \cup {expandedItems[i].Path}]

\* Model.performSearch, one round of the first loop
searchStep(st, f, queryLower, csm, i) ==
  LET it == st.items[i]
  IN  IF Contains(ToLower(it.Name), queryLower)
        THEN recordMatch(ensureParentPathsExpanded(st.items, f, it.Path), st, i)
      ELSE IF /\ csm /\ ~it.IsDir
              /\ it.Path \in f /\ FileSize(it.Path) < MaxContentSize
              /\ Contains(ToLower(FileContent(it.Path)), queryLower)
        THEN recordMatch(
               ensureParentPathsExpanded(
                 [st.items EXCEPT ![i].MatchesContent = TRUE], f, it.Path),
               st, i)
      ELSE st

\* the first loop of Model.performSearch, over the indices the range
\* statement fixed when it started
RECURSIVE searchMatches(_, _, _, _, _, _)
searchMatches(st, f, queryLower, csm, i, n) ==
  IF i > n THEN st
  ELSE searchMatches(searchStep(st, f, queryLower, csm, i),
                     f, queryLower, csm, i + 1, n)

\* sort.Slice by Path (the paths of a result list are pairwise distinct)
RECURSIVE ItemsAt(_, _)
ItemsAt(rs, paths) ==
  IF paths = <<>> THEN <<>>
  ELSE <<rs[FindPath(rs, Head(paths))]>> \o ItemsAt(rs, Tail(paths))

\* the results if they were left in the order the two loops appended them
SortByPath_m(rs) == rs

SortByPath(rs) == ItemsAt(rs, SortedPaths(PathsOf(rs)))

\* the second loop of Model.performSearch and the sort: the directories above
\* a found path that the first loop did not find are added to the results
searchResults(m) ==
  [items |-> m.items,
   results |-> SortByPath(m.results \o
                 SelectSeq(m.items, LAMBDA it :
                   /\ it.Path \notin m.foundPaths
                   /\ it.IsDir
                   /\ \E p \in m.foundPaths : Under(p, it.Path)))]

\* the reset of Model.performSearch if it cleared Selected with the content
\* match flags
RECURSIVE resetMatches_s(_, _)
resetMatches_s(its, i) ==
  IF i > Len(its) THEN its
  ELSE resetMatches_s([its EXCEPT ![i].MatchesContent = FALSE,
                                  ![i].Selected = FALSE], i + 1)

\* Model.performSearch, "Reset content match flags"
RECURSIVE resetMatches(_, _)
resetMatches(its, i) ==
  IF i > Len(its) THEN its
  ELSE resetMatches([its EXCEPT ![i].MatchesContent = FALSE], i + 1)

\* Model.performSearch for a non-empty query: the new items and the results
performSearch(its, f, query, csm) ==
  searchResults(
    searchMatches(
      [items |-> resetMatches(its, 1), results |-> <<>>, foundPaths |-> {}],
      f, ToLower(query), csm, 1, Len(its)))

\* ---------------------------------------------------------------- bookmarks
\* the bookmarks file at startup, as LoadBookmarks reads it: the name of each
\* bookmark ("1", "2", "3") and its file paths, relative to the working
\* directory as saveCurrentSelectionAsBookmark stores them
LoadBookmarks ==
  <<[Name |-> <<49>>, FilePaths |-> <<Rel(cwd, pAM)>>],
    [Name |-> <<50>>, FilePaths |-> <<Rel(cwd, pADT)>>],
    [Name |-> <<51>>, FilePaths |-> <<Rel(cwd, pADN), Rel(cwd, pAM)>>]>>

\* BookmarkStore.GetBookmark: the place of the first bookmark of that name,
\* 0 if there is none
GetBookmark(store, name) ==
  IF \E k \in 1..Len(store) : store[k].Name = name
    THEN CHOOSE k \in 1..Len(store) :
           /\ store[k].Name = name
           /\ \A j \in 1..(k - 1) : store[j].Name # name
    ELSE 0

\* SaveBookmark if it always added the bookmark
SaveBookmark_a(store, bookmark) == Append(store, bookmark)

\* BookmarkStore.SaveBookmark: the bookmarks in memory (they are changed
\* before the file is written)
SaveBookmark(store, bookmark) ==
  IF GetBookmark(store, bookmark.Name) # 0
    THEN [store EXCEPT ![GetBookmark(store, bookmark.Name)] = bookmark]
    ELSE Append(store, bookmark)

\* BookmarkStore.DeleteBookmark: the bookmarks in memory
DeleteBookmark(store, name) ==
  IF GetBookmark(store, name) = 0 THEN store
  ELSE SubSeq(store, 1, GetBookmark(store, name) - 1) \o
       SubSeq(store, GetBookmark(store, name) + 1, Len(store))

\* what writing the bookmarks file does: it succeeds, or the write of
\* DeleteBookmark fails, or the write of SaveBookmark fails
DiskOutcomes == {"ok", "deleteFails", "saveFails"}

\* Model.renameBookmark
renameBookmark(store, oldName, newName, disk) ==
  IF GetBookmark(store, oldName) = 0 THEN [store |-> store, err |-> TRUE]
  ELSE IF disk = "deleteFails"
    THEN [store |-> DeleteBookmark(store, oldName), err |-> TRUE]
  ELSE [store |-> SaveBookmark(DeleteBookmark(store, oldName),
                    [store[GetBookmark(store, oldName)] EXCEPT !.Name = newName]),
        err |-> disk = "saveFails"]

\* Model.saveCurrentSelectionAsBookmark, the loop: the paths of the selected
\* entries that are not ignored, relative to the working directory
RECURSIVE selectedPaths(_, _)
selectedPaths(its, k) ==
  IF k > Len(its) THEN <<>>
  ELSE (IF its[k].Selected /\ ~isGitIgnored(its[k].Path)
          THEN <<Rel(cwd, its[k].Path)>> ELSE <<>>)
       \o selectedPaths(its, k + 1)

\* Model.saveCurrentSelectionAsBookmark
saveCurrentSelectionAsBookmark(its, store, name, disk) ==
  IF selectedPaths(its, 1) = <<>> THEN [store |-> store, err |-> TRUE]
  ELSE [store |-> SaveBookmark(store, [Name |-> name,
                                       FilePaths |-> selectedPaths(its, 1)]),
        err |-> disk = "saveFails"]

\* Update, text input modal, case "enter", purpose "bookmark_description":
\* the bookmark is saved under its own name with the new description
saveDescription(store, name, disk) ==
  IF GetBookmark(store, name) = 0 THEN [store |-> store, err |-> FALSE]
  ELSE [store |-> SaveBookmark(store, store[GetBookmark(store, name)]),
        err |-> disk = "saveFails"]

\* the names a bookmark may have: those of the bookmarks file at startup and
\* those the user types
BookmarkNames == {<<49>>, <<50>>, <<51>>}

\* history: the bookmark was not saved by this run of the program
NoSave == [sel |-> {}, entries |-> {}]

\* the paths of the selected entries of the store
SelectedSet(its) == {its[k].Path : k \in {j \in 1..Len(its) : its[j].Selected}}

\* history: what the "enter" of the modal leaves in savedFrom.  A saved
\* bookmark records the selection and the entries of the store, a renamed
\* bookmark keeps its record under the new name, and a bookmark that left
\* the memory has none
savedAfter(inputValue, disk) ==
  CASE textInputPurpose = "new_bookmark" ->
         IF selectedPaths(items, 1) = <<>> THEN savedFrom
         ELSE [name \in BookmarkNames |->
                 IF name = inputValue
                   THEN [sel |-> SelectedSet(items), entries |-> PathsOf(items)]
                   ELSE savedFrom[name]]
    [] textInputPurpose = "rename_bookmark" ->
         IF GetBookmark(bookmarkStore, tempBookmarkName) = 0 THEN savedFrom
         ELSE [name \in BookmarkNames |->
                 IF name = inputValue /\ disk # "deleteFails"
                   THEN savedFrom[tempBookmarkName]
                 ELSE IF name = tempBookmarkName THEN NoSave
                 ELSE savedFrom[name]]
    [] OTHER -> savedFrom

\* ------------------------------------------------------------------ actions
\* model.New: the store holds what LoadFiles walked, the list its depth-0 items
InitWith(disk, store) ==
  /\ fs = disk
  /\ items = LoadFiles(disk, cwd)
  /\ list = SelectSeq(LoadFiles(disk, cwd), LAMBDA it : it.Depth = 0)
  /\ isLoading = FALSE
  /\ errors = <<>>
  /\ cmds = EmptyBag
  /\ merged = {}
  /\ filtering = FALSE
  /\ contentSearchMode = FALSE
  /\ last = [op |-> "init", path |-> <<>>, paths |-> {}, flag |-> FALSE]
  /\ searchHistory = <<>>
  /\ searchHistoryIndex = 0
  /\ bookmarkStore = store
  /\ showBookmarksMenu = FALSE
  /\ showTextInputModal = FALSE
  /\ textInputPurpose = ""
  /\ tempBookmarkName = <<>>
  /\ savedFrom = [name \in BookmarkNames |-> NoSave]

InitOn(disk) == InitWith(disk, LoadBookmarks)

Init == InitOn(InitialFs)

InFlight == BagCardinality(cmds)

\* toggleExpansion's assignment if collapsing a directory also collapsed the
\* directories below it
flipExpanded_m(its, i) ==
  IF its[i].Expanded
    THEN SelectSeq([k \in 1..Len(its) |->
                      IF k = i \/ (its[k].IsDir /\ Under(its[k].Path, its[i].Path))
                        THEN [its[k] EXCEPT !.Expanded = FALSE] ELSE its[k]],
                   LAMBDA it : TRUE)
    ELSE [its EXCEPT ![i].Expanded = TRUE]

\* toggleExpansion's assignment if collapsing a directory dropped the entries
\* below it from the store
flipExpanded_d(its, i) ==
  IF its[i].Expanded
    THEN SelectSeq([its EXCEPT ![i].Expanded = FALSE],
                   LAMBDA it : ~Under(it.Path, its[i].Path))
    ELSE [its EXCEPT ![i].Expanded = TRUE]

\* Model.toggleExpansion: m.items[i].Expanded = !m.items[i].Expanded
flipExpanded(its, i) == [its EXCEPT ![i].Expanded = ~its[i].Expanded]

\* Model.toggleExpansion if it returned a load command on every expansion,
\* loaded or not
toggleExpansion_r(path) ==
  LET i == FindPath(items, path)
  IN  /\ i # 0
      /\ items[i].IsDir
      /\ LET its == flipExpanded(items, i)
             load == its[i].Expanded
         IN  /\ load => InFlight < MaxInFlight
             /\ items' = its
             /\ isLoading' = (IF load THEN TRUE ELSE isLoading)
             /\ cmds' = (IF load THEN cmds (+) SetToBag({path}) ELSE cmds)
             /\ list' = VisibleItems(its)
             /\ last' = [op |-> IF its[i].Expanded THEN "expand" ELSE "collapse",
                         path |-> path, paths |-> {}, flag |-> load]

\* Model.toggleExpansion
toggleExpansion(path) ==
  LET i == FindPath(items, path)
  IN  /\ i # 0
      /\ items[i].IsDir
      /\ LET its == flipExpanded(items, i)
             load == its[i].Expanded /\ ~its[i].ChildrenLoaded
         IN  /\ load => InFlight < MaxInFlight
             /\ items' = its
             /\ isLoading' = (IF load THEN TRUE ELSE isLoading)
             /\ cmds' = (IF load THEN cmds (+) SetToBag({path}) ELSE cmds)
             /\ list' = VisibleItems(its)
             /\ last' = [op |-> IF its[i].Expanded THEN "expand" ELSE "collapse",
                         path |-> path, paths |-> {}, flag |-> load]

\* Update, case " ": toggleExpansion of the item under the cursor
KeySpace ==
  /\ Regular
  /\ \E k \in 1..Len(list) : toggleExpansion(list[k].Path)
  /\ UNCHANGED <<fs, errors, merged, filtering, contentSearchMode,
                 history, dialogs>>

\* The command returned by toggleExpansion reads the directory off the Update
\* loop and its message is consumed by Update later, in any order with the
\* other messages.  The read and the consumption are one step here: files are
\* only ever added to the disk and the merge only adds the paths the store
\* lacks, so a message read earlier than it is consumed leaves the store as a
\* message read at consumption time does.

\* Update's case errMsg if it marked the directories whose load is outstanding
\* as loaded
UpdateErrMsg_m ==
  \E path \in BagToSet(cmds) :
    /\ LoadDirectoryChildren(fs, path).err
    /\ Len(errors) < MaxErrors
    /\ errors' = Append(errors, path)
    /\ isLoading' = FALSE
    /\ cmds' = cmds (-) SetToBag({path})
    /\ items' = [items EXCEPT ![FindPath(items, path)].ChildrenLoaded = TRUE]
    /\ last' = [op |-> "errMsg", path |-> path, paths |-> {}, flag |-> FALSE]
    /\ UNCHANGED <<fs, list, merged, filtering, contentSearchMode,
                   history, dialogs>>

\* Update's case errMsg if it left the loading flag as it is
UpdateErrMsg_l ==
  \E path \in BagToSet(cmds) :
    /\ LoadDirectoryChildren(fs, path).err
    /\ Len(errors) < MaxErrors
    /\ errors' = Append(errors, path)
    /\ cmds' = cmds (-) SetToBag({path})
    /\ last' = [op |-> "errMsg", path |-> path, paths |-> {}, flag |-> FALSE]
    /\ UNCHANGED <<fs, items, list, isLoading, merged, filtering, contentSearchMode,
                   history, dialogs>>

\* Update, case errMsg (the message does not name the directory)
UpdateErrMsg ==
  \E path \in BagToSet(cmds) :
    /\ LoadDirectoryChildren(fs, path).err
    /\ Len(errors) < MaxErrors
    /\ errors' = Append(errors, path)
    /\ isLoading' = FALSE
    /\ cmds' = cmds (-) SetToBag({path})
    /\ last' = [op |-> "errMsg", path |-> path, paths |-> {}, flag |-> FALSE]
    /\ UNCHANGED <<fs, items, list, merged, filtering, contentSearchMode,
                   history, dialogs>>

\* the merge without the filter on the paths already in the store
MergeChildren_m(its, parentPath, children) ==
  LET i == FindPath(its, parentPath)
      marked == IF i = 0 THEN its ELSE [its EXCEPT ![i].ChildrenLoaded = TRUE]
  IN  marked \o children

\* the merge with the new children taking over the selection of the directory
MergeChildren_s(its, parentPath, children) ==
  LET i == FindPath(its, parentPath)
      marked == IF i = 0 THEN its ELSE [its EXCEPT ![i].ChildrenLoaded = TRUE]
      existingPaths == PathsOf(marked)
      newChildren == SelectSeq(children, LAMBDA c : c.Path \notin existingPaths)
  IN  marked \o SetSelected(newChildren, 1..Len(newChildren),
                             i # 0 /\ its[i].Selected)

\* the merge that adds the children and leaves ChildrenLoaded as it is
MergeChildren_u(its, parentPath, children) ==
  LET existingPaths == PathsOf(its)
  IN  its \o SelectSeq(children, LAMBDA c : c.Path \notin existingPaths)

\* the merge that drops the result of a directory that is collapsed by now
MergeChildren_c(its, parentPath, children) ==
  LET i == FindPath(its, parentPath)
      marked == IF i = 0 THEN its ELSE [its EXCEPT ![i].ChildrenLoaded = TRUE]
      existingPaths == PathsOf(marked)
      newChildren == SelectSeq(children, LAMBDA c : c.Path \notin existingPaths)
  IN  IF i # 0 /\ ~its[i].Expanded THEN its ELSE marked \o newChildren

\* the merge that takes the directory as loaded only when the result has
\* entries
MergeChildren_e(its, parentPath, children) ==
  LET i == FindPath(its, parentPath)
      marked == IF i = 0 THEN its
                ELSE [its EXCEPT ![i].ChildrenLoaded = (children # <<>>)]
      existingPaths == PathsOf(marked)
      newChildren == SelectSeq(children, LAMBDA c : c.Path \notin existingPaths)
  IN  marked \o newChildren

\* the store after Update's case childrenLoadedMsg
MergeChildren(its, parentPath, children) ==
  LET i == FindPath(its, parentPath)
      marked == IF i = 0 THEN its ELSE [its EXCEPT ![i].ChildrenLoaded = TRUE]
      existingPaths == PathsOf(marked)
      newChildren == SelectSeq(children, LAMBDA c : c.Path \notin existingPaths)
  IN  marked \o newChildren

\* Update, case childrenLoadedMsg
UpdateChildrenLoadedMsg ==
  \E path \in BagToSet(cmds) :
    \E r \in {LoadDirectoryChildren(fs, path)} :
    \E msg \in {[parentPath |-> path, children |-> r.children]} :
    \E its \in {MergeChildren(items, msg.parentPath, msg.children)} :
        /\ ~r.err
        /\ items' = its
        /\ list' = VisibleItems(its)
        /\ isLoading' = FALSE
        /\ cmds' = cmds (-) SetToBag({path})
        /\ merged' = merged \cup {msg}
        /\ last' = [op |-> "merge", path |-> path,
                    paths |-> PathsOf(its) \ PathsOf(items),
                    flag |-> msg \in merged]
        /\ UNCHANGED <<fs, errors, filtering, contentSearchMode,
                       history, dialogs>>

\* Update, case "esc" outside the filter: the error list is dismissed
KeyEsc ==
  /\ Regular
  /\ errors # <<>>
  /\ errors' = <<>>
  /\ last' = [op |-> "esc", path |-> <<>>, paths |-> {}, flag |-> FALSE]
  /\ UNCHANGED <<fs, items, list, isLoading, cmds, merged, filtering,
                 contentSearchMode,
                 history, dialogs>>

\* Update, case "ctrl+s": Model.toggleContentSearchMode
KeyCtrlS ==
  /\ Regular
  /\ contentSearchMode' = ~contentSearchMode
  /\ last' = [op |-> "ctrl+s", path |-> <<>>, paths |-> {}, flag |-> FALSE]
  /\ UNCHANGED <<fs, items, list, isLoading, errors, cmds, merged,
                 filtering,
                 history, dialogs>>

\* "/" is not handled by Update and reaches the list, which starts filtering
KeySlash ==
  /\ Regular
  /\ filtering' = TRUE
  /\ last' = [op |-> "/", path |-> <<>>, paths |-> {}, flag |-> FALSE]
  /\ UNCHANGED <<fs, items, list, isLoading, errors, cmds, merged,
                 contentSearchMode,
                 history, dialogs>>

\* Update, filtering state, case "enter", "esc": a query that is not empty
\* and differs from the last entry of the history is appended to it
appendsHistory(query) ==
  query # <<>> /\ (Len(searchHistory) = 0 \/ searchHistory[Len(searchHistory)] # query)

recordHistory(query) ==
  IF appendsHistory(query)
    THEN /\ Len(searchHistory) < MaxHistory
         /\ searchHistory' = Append(searchHistory, query)
         /\ searchHistoryIndex' = Len(searchHistory) + 1
    ELSE UNCHANGED history

\* the "enter" of the filtering state if an empty query kept the view, as a
\* query without results does
FilterEnter_m ==
  /\ Filtering
  /\ \E query \in Queries :
       /\ recordHistory(query)
       /\ IF query = <<>>
            THEN /\ items' = items
                 /\ list' = list
                 /\ last' = [op |-> "search", path |-> query, paths |-> {},
                             flag |-> FALSE]
            ELSE \E r \in {performSearch(items, fs, query, contentSearchMode)} :
                   /\ items' = r.items
                   /\ list' = (IF Len(r.results) > 0 THEN r.results ELSE list)
                   /\ last' = [op |-> "search", path |-> query, paths |-> {},
                               flag |-> Len(r.results) > 0]
  /\ UNCHANGED <<fs, isLoading, errors, cmds, merged, filtering,
                 contentSearchMode,
                 dialogs>>

\* the "enter" of the filtering state if the results were added to the list
\* instead of replacing its items
FilterEnter_k ==
  /\ Filtering
  /\ \E query \in Queries :
       /\ recordHistory(query)
       /\ IF query = <<>>
            THEN /\ items' = items
                 /\ list' = VisibleItems(items)
                 /\ last' = [op |-> "search", path |-> query, paths |-> {},
                             flag |-> FALSE]
            ELSE \E r \in {performSearch(items, fs, query, contentSearchMode)} :
                   /\ items' = r.items
                   /\ list' = (IF Len(r.results) > 0
                                 THEN list \o SelectSeq(r.results,
                                        LAMBDA it : it.Path \notin PathsOf(list))
                                 ELSE list)
                   /\ last' = [op |-> "search", path |-> query, paths |-> {},
                               flag |-> Len(r.results) > 0]
  /\ UNCHANGED <<fs, isLoading, errors, cmds, merged, filtering,
                 contentSearchMode,
                 dialogs>>

\* Update, filtering state, case "enter": performSearch(list.FilterValue())
FilterEnter ==
  /\ Filtering
  /\ \E query \in Queries :
       /\ recordHistory(query)
       /\ IF query = <<>>
            THEN /\ items' = items
                 /\ list' = VisibleItems(items)
                 /\ last' = [op |-> "search", path |-> query, paths |-> {},
                             flag |-> FALSE]
            ELSE \E r \in {performSearch(items, fs, query, contentSearchMode)} :
                   /\ items' = r.items
                   /\ list' = (IF Len(r.results) > 0 THEN r.results ELSE list)
                   /\ last' = [op |-> "search", path |-> query, paths |-> {},
                               flag |-> Len(r.results) > 0]
  /\ UNCHANGED <<fs, isLoading, errors, cmds, merged, filtering,
                 contentSearchMode,
                 dialogs>>

\* Update, filtering state, case "esc": the query joins the history and
\* the key reaches the list, which leaves the filter
FilterEsc ==
  /\ Filtering
  /\ \E query \in Queries : recordHistory(query)
  /\ filtering' = FALSE
  /\ last' = [op |-> "filterEsc", path |-> <<>>, paths |-> {}, flag |-> FALSE]
  /\ UNCHANGED <<fs, items, list, isLoading, errors, cmds, merged,
                 contentSearchMode,
                 dialogs>>

\* Model.applyBookmark, the loop over bookmark.FilePaths: an entry of the
\* store is selected and the directories above it are expanded and loaded
RECURSIVE applyPaths(_, _, _, _)
applyPaths(its, f, filePaths, k) ==
  IF k > Len(filePaths) THEN its
  ELSE LET absPath == Join(cwd, filePaths[k])
       IN  IF FindPath(its, absPath) = 0
             THEN applyPaths(its, f, filePaths, k + 1)
             ELSE applyPaths(
                    ensureParentPathsExpanded(
                      toggleSelection(its, absPath, TRUE, TRUE).items, f, absPath),
                    f, filePaths, k + 1)

\* applyBookmark if it kept the current selection
applyBookmark_k(its, f, filePaths) == applyPaths(its, f, filePaths, 1)

\* Model.applyBookmark
applyBookmark(its, f, filePaths) == applyPaths(deselectAll(its), f, filePaths, 1)

\* Update, bookmarks menu, case "enter": Model.applyBookmark of the bookmark
\* under the menu's cursor; the menu closes (last.flag: the selection
\* changed)
ApplyBookmark ==
  /\ ~showTextInputModal /\ showBookmarksMenu
  /\ \E k \in 1..Len(bookmarkStore) :
       \E b \in {bookmarkStore[GetBookmark(bookmarkStore, bookmarkStore[k].Name)]} :
       \E its \in {applyBookmark(items, fs, b.FilePaths)} :
         /\ items' = its
         /\ list' = VisibleItems(its)
         /\ last' = [op |-> "applyBookmark", path |-> b.Name,
                     paths |-> {Join(cwd, b.FilePaths[j]) : j \in 1..Len(b.FilePaths)},
                     flag |-> SelectedSet(its) # SelectedSet(items)]
  /\ showBookmarksMenu' = FALSE
  /\ UNCHANGED <<fs, isLoading, errors, cmds, merged, filtering,
                 contentSearchMode, history, bookmarkStore,
                 showTextInputModal, textInputPurpose, tempBookmarkName,
                 savedFrom>>

\* Update, case "ctrl+b": the bookmarks menu opens (the case is reached only
\* while the menu is not shown)
KeyCtrlB ==
  /\ Regular
  /\ showBookmarksMenu' = TRUE
  /\ last' = [op |-> "ctrl+b", path |-> <<>>, paths |-> {}, flag |-> FALSE]
  /\ UNCHANGED <<fs, items, list, isLoading, errors, cmds, merged, filtering,
                 contentSearchMode, history, bookmarkStore,
                 showTextInputModal, textInputPurpose, tempBookmarkName,
                 savedFrom>>

\* Update, bookmarks menu, case "esc"
MenuEsc ==
  /\ ~showTextInputModal /\ showBookmarksMenu
  /\ showBookmarksMenu' = FALSE
  /\ last' = [op |-> "menuEsc", path |-> <<>>, paths |-> {}, flag |-> FALSE]
  /\ UNCHANGED <<fs, items, list, isLoading, errors, cmds, merged, filtering,
                 contentSearchMode, history, bookmarkStore,
                 showTextInputModal, textInputPurpose, tempBookmarkName,
                 savedFrom>>

\* Update, bookmarks menu, case "n": the menu closes and
\* showNewBookmarkDialog opens the modal
MenuN ==
  /\ ~showTextInputModal /\ showBookmarksMenu
  /\ showBookmarksMenu' = FALSE
  /\ showTextInputModal' = TRUE
  /\ textInputPurpose' = "new_bookmark"
  /\ last' = [op |-> "menuN", path |-> <<>>, paths |-> {}, flag |-> FALSE]
  /\ UNCHANGED <<fs, items, list, isLoading, errors, cmds, merged, filtering,
                 contentSearchMode, history, bookmarkStore, tempBookmarkName,
                 savedFrom>>

\* the entry of the error list for a failed bookmark operation: "bkmk"
BookmarkError == <<98, 107, 109, 107>>

\* Update, bookmarks menu, case "d": Model.deleteBookmark of the bookmark
\* under the cursor
MenuD ==
  /\ ~showTextInputModal /\ showBookmarksMenu
  /\ \E k \in 1..Len(bookmarkStore) :
     \E disk \in {"ok", "deleteFails"} :
       /\ bookmarkStore' = DeleteBookmark(bookmarkStore, bookmarkStore[k].Name)
       /\ savedFrom' = [name \in BookmarkNames |->
                         IF name = bookmarkStore[k].Name THEN NoSave
                         ELSE savedFrom[name]]
       /\ IF disk = "deleteFails"
            THEN /\ Len(errors) < MaxErrors
                 /\ errors' = Append(errors, BookmarkError)
            ELSE UNCHANGED errors
       /\ last' = [op |-> "menuD", path |-> bookmarkStore[k].Name, paths |-> {},
                   flag |-> disk = "deleteFails"]
  /\ UNCHANGED <<fs, items, list, isLoading, cmds, merged, filtering,
                 contentSearchMode, history, showBookmarksMenu,
                 showTextInputModal, textInputPurpose, tempBookmarkName>>

\* Update, bookmarks menu, case "r": showRenameBookmarkDialog for the
\* bookmark under the cursor (the menu stays shown under the modal)
MenuR ==
  /\ ~showTextInputModal /\ showBookmarksMenu
  /\ \E k \in 1..Len(bookmarkStore) :
       /\ tempBookmarkName' = bookmarkStore[k].Name
       /\ last' = [op |-> "menuR", path |-> bookmarkStore[k].Name, paths |-> {},
                   flag |-> FALSE]
  /\ showTextInputModal' = TRUE
  /\ textInputPurpose' = "rename_bookmark"
  /\ UNCHANGED <<fs, items, list, isLoading, errors, cmds, merged, filtering,
                 contentSearchMode, history, bookmarkStore, showBookmarksMenu,
                 savedFrom>>

\* Update, bookmarks menu, case "i": the modal opens for the description of
\* the bookmark under the cursor
MenuI ==
  /\ ~showTextInputModal /\ showBookmarksMenu
  /\ \E k \in 1..Len(bookmarkStore) :
       /\ tempBookmarkName' = bookmarkStore[k].Name
       /\ last' = [op |-> "menuI", path |-> bookmarkStore[k].Name, paths |-> {},
                   flag |-> FALSE]
  /\ showTextInputModal' = TRUE
  /\ textInputPurpose' = "bookmark_description"
  /\ UNCHANGED <<fs, items, list, isLoading, errors, cmds, merged, filtering,
                 contentSearchMode, history, bookmarkStore, showBookmarksMenu,
                 savedFrom>>

\* Update, case "ctrl+shift+b": showNewBookmarkDialog
KeyCtrlShiftB ==
  /\ Regular
  /\ showTextInputModal' = TRUE
  /\ textInputPurpose' = "new_bookmark"
  /\ last' = [op |-> "ctrl+shift+b", path |-> <<>>, paths |-> {}, flag |-> FALSE]
  /\ UNCHANGED <<fs, items, list, isLoading, errors, cmds, merged, filtering,
                 contentSearchMode, history, bookmarkStore, showBookmarksMenu,
                 tempBookmarkName,
                 savedFrom>>

\* Update, text input modal, case "esc"
ModalEsc ==
  /\ showTextInputModal
  /\ showTextInputModal' = FALSE
  /\ last' = [op |-> "modalEsc", path |-> <<>>, paths |-> {}, flag |-> FALSE]
  /\ UNCHANGED <<fs, items, list, isLoading, errors, cmds, merged, filtering,
                 contentSearchMode, history, bookmarkStore, showBookmarksMenu,
                 textInputPurpose, tempBookmarkName,
                 savedFrom>>

\* the values of the text input when "enter" is pressed: "", "1", "2"
InputValues == {<<>>, <<49>>, <<50>>}

\* Update, text input modal, case "enter": the operation the modal was
\* opened for, with the bookmarks it leaves in memory and whether it failed
modalOutcome(inputValue, disk) ==
  CASE textInputPurpose = "new_bookmark" ->
         saveCurrentSelectionAsBookmark(items, bookmarkStore, inputValue, disk)
    [] textInputPurpose = "rename_bookmark" ->
         renameBookmark(bookmarkStore, tempBookmarkName, inputValue, disk)
    [] textInputPurpose = "bookmark_description" ->
         saveDescription(bookmarkStore, tempBookmarkName, disk)
    [] OTHER -> [store |-> bookmarkStore, err |-> FALSE]

\* the "enter" of the modal if a failed operation left the modal open
ModalEnter_o ==
  /\ showTextInputModal
  /\ \E inputValue \in InputValues :
       IF inputValue = <<>>
         THEN /\ showTextInputModal' = FALSE
              /\ UNCHANGED <<bookmarkStore, errors, savedFrom>>
              /\ last' = [op |-> "modalEnter", path |-> inputValue,
                          paths |-> {}, flag |-> FALSE]
         ELSE \E disk \in DiskOutcomes :
              \E r \in {modalOutcome(inputValue, disk)} :
                /\ showTextInputModal' = r.err
                /\ bookmarkStore' = r.store
                /\ savedFrom' = savedAfter(inputValue, disk)
                /\ IF r.err
                     THEN /\ Len(errors) < MaxErrors
                          /\ errors' = Append(errors, BookmarkError)
                     ELSE UNCHANGED errors
                /\ last' = [op |-> "modalEnter", path |-> inputValue,
                            paths |-> {}, flag |-> r.err]
  /\ UNCHANGED <<fs, items, list, isLoading, cmds, merged, filtering,
                 contentSearchMode, history, showBookmarksMenu,
                 textInputPurpose, tempBookmarkName>>

\* Update, text input modal, case "enter"
ModalEnter ==
  /\ showTextInputModal
  /\ showTextInputModal' = FALSE
  /\ \E inputValue \in InputValues :
       IF inputValue = <<>>
         THEN /\ UNCHANGED <<bookmarkStore, errors, savedFrom>>
              /\ last' = [op |-> "modalEnter", path |-> inputValue,
                          paths |-> {}, flag |-> FALSE]
         ELSE \E disk \in DiskOutcomes :
              \E r \in {modalOutcome(inputValue, disk)} :
                /\ bookmarkStore' = r.store
                /\ savedFrom' = savedAfter(inputValue, disk)
                /\ IF r.err
                     THEN /\ Len(errors) < MaxErrors
                          /\ errors' = Append(errors, BookmarkError)
                     ELSE UNCHANGED errors
                /\ last' = [op |-> "modalEnter", path |-> inputValue,
                            paths |-> {}, flag |-> r.err]
  /\ UNCHANGED <<fs, items, list, isLoading, cmds, merged, filtering,
                 contentSearchMode, history, showBookmarksMenu,
                 textInputPurpose, tempBookmarkName>>

\* Update, text input modal, default: any other key goes to the text input
ModalKey ==
  /\ showTextInputModal
  /\ last' = [op |-> "modalKey", path |-> <<>>, paths |-> {}, flag |-> FALSE]
  /\ UNCHANGED <<fs, items, list, isLoading, errors, cmds, merged, filtering,
                 contentSearchMode, history, dialogs>>

\* Update, filtering state, case "up" and "down": performSearch of the entry
\* of the history at index i (counted from 0, as in the source); an index
\* outside the history is a run-time panic
historySearch(i) ==
  IF Len(searchHistory) = 0
    THEN /\ UNCHANGED <<items, list>>
         /\ last' = [op |-> "history", path |-> <<>>, paths |-> {}, flag |-> FALSE]
  ELSE IF i < 0 \/ i > Len(searchHistory) - 1
    THEN /\ UNCHANGED <<items, list>>
         /\ last' = [op |-> "panic", path |-> <<>>, paths |-> {}, flag |-> FALSE]
  ELSE \E r \in {performSearch(items, fs, searchHistory[i + 1], contentSearchMode)} :
         /\ items' = r.items
         /\ list' = (IF Len(r.results) > 0 THEN r.results ELSE list)
         /\ last' = [op |-> "search", path |-> searchHistory[i + 1], paths |-> {},
                     flag |-> Len(r.results) > 0]

\* Update, filtering state, case "up"
FilterUp ==
  /\ Filtering
  /\ searchHistoryIndex > 0
  /\ searchHistoryIndex' = searchHistoryIndex - 1
  /\ historySearch(searchHistoryIndex - 1)
  /\ UNCHANGED <<fs, isLoading, errors, cmds, merged, filtering,
                 contentSearchMode, searchHistory, dialogs>>

\* the "down" of the filtering state if it stepped up to the length of the
\* history
FilterDown_m ==
  /\ Filtering
  /\ searchHistoryIndex < Len(searchHistory)
  /\ searchHistoryIndex' = searchHistoryIndex + 1
  /\ historySearch(searchHistoryIndex + 1)
  /\ UNCHANGED <<fs, isLoading, errors, cmds, merged, filtering,
                 contentSearchMode, searchHistory, dialogs>>

\* Update, filtering state, case "down"
FilterDown ==
  /\ Filtering
  /\ searchHistoryIndex < Len(searchHistory) - 1
  /\ searchHistoryIndex' = searchHistoryIndex + 1
  /\ historySearch(searchHistoryIndex + 1)
  /\ UNCHANGED <<fs, isLoading, errors, cmds, merged, filtering,
                 contentSearchMode, searchHistory, dialogs>>

\* addParentDirs, "Then add this parent if not already added"
addParent(up, allItems, parentPath) ==
  IF parentPath \in PathsOf(up) \/ FindDir(allItems, parentPath) = 0 THEN up
  ELSE Append(up, allItems[FindDir(allItems, parentPath)])

\* addParentDirs
RECURSIVE addParentDirs(_, _, _)
addParentDirs(path, results, allItems) ==
  IF Dir(path) = cwd \/ Dir(path) = <<Dot>> THEN results
  ELSE addParent(addParentDirs(Dir(path), results, allItems), allItems, Dir(path))

\* Model.executeCustomSearch, the loops that add the matches one by one, each
\* followed by the directories above it
RECURSIVE addMatches(_, _, _, _)
addMatches(results, matches, allItems, k) ==
  IF k > Len(matches) THEN results
  ELSE addMatches(
         IF matches[k].Path \in PathsOf(results) THEN results
         ELSE addParentDirs(matches[k].Path, Append(results, matches[k]), allItems),
         matches, allItems, k + 1)

\* Model.executeCustomSearch, the copies of the content pass:
\* fileItem.MatchesContent = true
RECURSIVE markContent(_)
markContent(its) ==
  IF its = <<>> THEN <<>>
  ELSE <<[Head(its) EXCEPT !.MatchesContent = TRUE]>> \o markContent(Tail(its))

\* Model.executeCustomSearch, "First pass: Find exact matches"
exactMatches(its, queryLower) ==
  SelectSeq(its, LAMBDA it : ~it.IsDir /\ ToLower(it.Name) = queryLower)

\* Model.executeCustomSearch, "Look for partial matches in filenames"
partialMatches(its, queryLower) ==
  SelectSeq(its, LAMBDA it : ~it.IsDir /\ Contains(ToLower(it.Name), queryLower))

\* Model.executeCustomSearch, the content pass, entered when no file name
\* matched and content mode is on
contentMatches(its, f, queryLower, csm, matchCount) ==
  IF matchCount = 0 /\ csm
    THEN markContent(SelectSeq(its, LAMBDA it :
           /\ ~it.IsDir
           /\ it.Path \in f /\ FileSize(it.Path) < MaxContentSize
           /\ Contains(ToLower(FileContent(it.Path)), queryLower)))
    ELSE <<>>

\* Model.executeCustomSearch without exact matches
fuzzyResults(its, f, queryLower, csm, partial) ==
  SortByPath(addMatches(addMatches(<<>>, partial, its, 1),
                        contentMatches(its, f, queryLower, csm, Len(partial)),
                        its, 1))

\* Model.executeCustomSearch, with the store its flags were reset in
customResults(its, f, queryLower, csm, exact) ==
  [items |-> its,
   exact |-> PathsOf(exact),
   results |-> IF Len(exact) > 0
                 THEN SortByPath(addMatches(<<>>, exact, its, 1))
                 ELSE fuzzyResults(its, f, queryLower, csm,
                                   partialMatches(its, queryLower))]

\* executeCustomSearch without the first pass
executeCustomSearch_m(its, f, query, csm) ==
  customResults(resetMatches(its, 1), f, ToLower(query), csm, <<>>)

\* Model.executeCustomSearch for a non-empty query
executeCustomSearch(its, f, query, csm) ==
  customResults(resetMatches(its, 1), f, ToLower(query), csm,
                exactMatches(resetMatches(its, 1), ToLower(query)))

\* the queries handed to executeCustomSearch: "", "a", "d", "go", "GO", "q"
CustomQueries == {<<>>, <<97>>, <<100>>, <<103, 111>>, <<71, 79>>, <<113>>}

\* Model.executeCustomSearch (no key of Update calls it; it is applied in
\* every state)
ExecuteCustomSearch ==
  /\ \E query \in CustomQueries :
       IF query = <<>>
         THEN /\ items' = items
              /\ list' = VisibleItems(items)
              /\ last' = [op |-> "customSearch", path |-> query, paths |-> {},
                          flag |-> FALSE]
         ELSE \E r \in {executeCustomSearch(items, fs, query, contentSearchMode)} :
                /\ items' = r.items
                /\ list' = (IF Len(r.results) > 0 THEN r.results
                            ELSE VisibleItems(r.items))
                /\ last' = [op |-> "customSearch", path |-> query,
                            paths |-> r.exact, flag |-> Len(r.results) > 0]
  /\ UNCHANGED <<fs, isLoading, errors, cmds, merged, filtering,
                 contentSearchMode,
                 history, dialogs>>

\* the entry of the error list for "Failed to copy to clipboard": "clip"
ClipboardError == <<99, 108, 105, 112>>

\* Update, case "enter": the entries handed to BuildOutput, the selected
\* entries that are not ignored or, without any, the entry under the cursor
enterSelection(its, lst, k) ==
  LET selected == SelectSeq(its, LAMBDA it : it.Selected /\ ~isGitIgnored(it.Path))
  IN  IF Len(selected) > 0 THEN selected
      ELSE IF k # 0 /\ ~isGitIgnored(lst[k].Path) THEN <<lst[k]>>
      ELSE <<>>

\* the "enter" that quits whether the clipboard took the output or not
KeyEnter_m ==
  /\ Regular
  /\ \E k \in (IF Len(list) = 0 THEN {0} ELSE 1..Len(list)) :
       \E selected \in {enterSelection(items, list, k)} :
         IF Len(selected) = 0
           THEN /\ last' = [op |-> "enter", path |-> <<>>, paths |-> {},
                            flag |-> FALSE]
                /\ UNCHANGED errors
           ELSE \E failed \in BOOLEAN :
                  /\ failed => Len(errors) < MaxErrors
                  /\ errors' = (IF failed THEN Append(errors, ClipboardError)
                                ELSE errors)
                  /\ last' = [op |-> "quit", path |-> list[k].Path,
                              paths |-> PathsOf(selected), flag |-> failed]
  /\ UNCHANGED <<fs, items, list, isLoading, cmds, merged, filtering,
                 contentSearchMode,
                 history, dialogs>>

\* Update, case "enter": the output is written to the clipboard, which can
\* fail; the program quits (last.op = "quit") when it was written
KeyEnter ==
  /\ Regular
  /\ \E k \in (IF Len(list) = 0 THEN {0} ELSE 1..Len(list)) :
       \E selected \in {enterSelection(items, list, k)} :
         IF Len(selected) = 0
           THEN /\ last' = [op |-> "enter", path |-> <<>>, paths |-> {},
                            flag |-> FALSE]
                /\ UNCHANGED errors
           ELSE \E failed \in BOOLEAN :
                  /\ failed => Len(errors) < MaxErrors
                  /\ errors' = (IF failed THEN Append(errors, ClipboardError)
                                ELSE errors)
                  /\ last' = [op |-> IF failed THEN "enter" ELSE "quit",
                              path |-> list[k].Path,
                              paths |-> PathsOf(selected), flag |-> failed]
  /\ UNCHANGED <<fs, items, list, isLoading, cmds, merged, filtering,
                 contentSearchMode,
                 history, dialogs>>

\* a file is created on disk while the program runs
FsCreate ==
  \E p \in LatePaths \ fs :
    /\ Dir(p) \in fs
    /\ fs' = fs \cup {p}
    /\ last' = [op |-> "fsCreate", path |-> p, paths |-> {}, flag |-> FALSE]
    /\ UNCHANGED <<items, list, isLoading, errors, cmds, merged,
                   filtering, contentSearchMode,
                   history, dialogs>>

\* The program handles messages until tea.Quit.
Running == last.op # "quit"

Next ==
  \/ Running /\ KeySpace
  \/ Running /\ UpdateErrMsg
  \/ Running /\ UpdateChildrenLoadedMsg
  \/ Running /\ KeyEsc
  \/ Running /\ KeyTab
  \/ Running /\ KeyCtrlA
  \/ Running /\ KeyCtrlD
  \/ Running /\ SelectByExtension
  \/ Running /\ KeyCtrlS
  \/ Running /\ KeySlash
  \/ Running /\ FilterEnter
  \/ Running /\ FilterEsc
  \/ Running /\ FilterUp
  \/ Running /\ FilterDown
  \/ Running /\ FsCreate
  \/ Running /\ KeyCtrlB
  \/ Running /\ ApplyBookmark
  \/ Running /\ ExecuteCustomSearch
  \/ Running /\ KeyEnter
  \/ Running /\ MenuEsc
  \/ Running /\ MenuN
  \/ Running /\ MenuD
  \/ Running /\ MenuR
  \/ Running /\ MenuI
  \/ Running /\ KeyCtrlShiftB
  \/ Running /\ ModalEsc
  \/ Running /\ ModalEnter
  \/ Running /\ ModalKey

Spec == Init /\ [][Next]_vars

\* The tree and its lazy loads, on the disk with the unreadable directory and
\* the ignored directory: the user expands and collapses, loads succeed or fail.
NextCore ==
  \/ KeySpace
  \/ UpdateErrMsg
  \/ UpdateChildrenLoadedMsg
  \/ KeyEsc
  \/ FsCreate

SpecCore == Init /\ [][NextCore]_vars

\* Selection, on the disk where /w/a/d starts empty: the user expands,
\* collapses and selects while files appear in /w/a/d.
NextSel ==
  \/ KeySpace
  \/ UpdateChildrenLoadedMsg
  \/ FsCreate
  \/ KeyTab
  \/ KeyCtrlA
  \/ KeyCtrlD
  \/ SelectByExtension

SpecSel == InitOn(SelFs) /\ [][NextSel]_vars

\* Search, on the small disk: the user expands, collapses and filters.
NextSearch ==
  \/ KeySpace
  \/ UpdateChildrenLoadedMsg
  \/ FsCreate
  \/ KeySlash
  \/ FilterEnter
  \/ FilterEsc
  \/ KeyCtrlS

SpecSearch == InitOn(SmallFs) /\ [][NextSearch]_vars

\* The store over the operations that add entries to it, on the small disk:
\* the user expands, collapses, filters and applies bookmarks while files
\* are created.
NextStore ==
  \/ KeySpace
  \/ UpdateChildrenLoadedMsg
  \/ FsCreate
  \/ KeySlash
  \/ FilterEnter
  \/ FilterEsc
  \/ KeyCtrlB
  \/ ApplyBookmark

SpecStore == InitOn(SmallFs) /\ [][NextStore]_vars

\* The custom search, on the disk with the file "go": the user expands and
\* collapses, switches the content mode, and the search is run.
NextCustom ==
  \/ KeySpace
  \/ UpdateChildrenLoadedMsg
  \/ FsCreate
  \/ KeyCtrlS
  \/ ExecuteCustomSearch

SpecCustom == InitOn(CustomFs) /\ [][NextCustom]_vars

\* Confirming, on the disk of the selection: the user expands, selects and
\* presses enter until the clipboard takes the output and the program quits.
NextEnter ==
  \/ Running /\ KeySpace
  \/ Running /\ UpdateChildrenLoadedMsg
  \/ Running /\ FsCreate
  \/ Running /\ KeyTab
  \/ Running /\ KeyEsc
  \/ Running /\ KeyEnter

SpecEnter == InitOn(SelFs) /\ [][NextEnter]_vars

\* Loading, on a disk with the unreadable /w/u: the user expands and
\* collapses and dismisses the errors.  The Bubble Tea runtime runs every
\* command Update returns and hands its message to Update, so the outcome of
\* an outstanding load is delivered in the end.  The error list of the model
\* is bounded where the program's is not; dismissing it in the end stands for
\* the room the program's list always has.
LoadFs == {pA, pAM, pAD, pU}

NextLoad ==
  \/ KeySpace
  \/ UpdateErrMsg
  \/ UpdateChildrenLoadedMsg
  \/ KeyEsc

SpecLoad ==
  /\ InitOn(LoadFs) /\ [][NextLoad]_vars
  /\ WF_vars(UpdateChildrenLoadedMsg)
  /\ WF_vars(UpdateErrMsg)
  /\ WF_vars(KeyEsc)

\* The list widget, on the small disk: the user expands, collapses, selects,
\* applies bookmarks and filters by name, so that every operation that
\* refreshes the list also happens after the list showed the results of a
\* search.
NextView ==
  \/ KeySpace
  \/ UpdateChildrenLoadedMsg
  \/ KeyTab
  \/ KeyCtrlA
  \/ KeyCtrlD
  \/ SelectByExtension
  \/ KeyCtrlB
  \/ ApplyBookmark
  \/ KeySlash
  \/ FilterEnter
  \/ FilterEsc

SpecView == InitOn(SmallFs) /\ [][NextView]_vars

\* the searches by name and by content among expansions, loads and toggles
NextFrame ==
  \/ KeySpace
  \/ UpdateChildrenLoadedMsg
  \/ KeyTab
  \/ KeyCtrlS
  \/ KeySlash
  \/ FilterEnter
  \/ FilterEsc

SpecFrame == InitOn(SmallFs) /\ [][NextFrame]_vars

\* The bookmarks, from the bookmarks file of three bookmarks: the user
\* selects, saves the selection as a bookmark, renames, describes and
\* deletes bookmarks, and the write of the bookmarks file succeeds or fails.
NextBookmarks ==
  \/ KeyTab
  \/ KeyCtrlB
  \/ MenuEsc
  \/ MenuN
  \/ MenuD
  \/ MenuR
  \/ MenuI
  \/ KeyCtrlShiftB
  \/ ModalEsc
  \/ ModalEnter
  \/ ModalKey

SpecBookmarks == InitOn(CustomFs) /\ [][NextBookmarks]_vars

\* Saving and applying, from an empty bookmarks file on the disk where
\* /w/a/d holds a file that is not ignored: the user expands, collapses and
\* selects, saves the selection as a bookmark and applies bookmarks, so
\* that every bookmark in memory was saved by this run of the program.
NextRestore ==
  \/ KeySpace
  \/ UpdateChildrenLoadedMsg
  \/ KeyTab
  \/ KeyCtrlShiftB
  \/ ModalEsc
  \/ ModalEnter
  \/ KeyCtrlB
  \/ MenuEsc
  \/ ApplyBookmark

SpecRestore == InitWith(CustomFs, <<>>) /\ [][NextRestore]_vars

\* The text input modal, from an empty bookmarks file on the disk of the
\* selections: the user expands, collapses and selects while loads are in
\* flight, opens the modal for a new bookmark or for a new name, and closes
\* it with "esc" or "enter"; the write of the bookmarks file succeeds or
\* fails.
NextModal ==
  \/ KeySpace
  \/ UpdateChildrenLoadedMsg
  \/ KeyTab
  \/ KeyCtrlShiftB
  \/ KeyCtrlB
  \/ MenuR
  \/ ModalEsc
  \/ ModalEnter
  \/ ModalKey

SpecModal == InitWith(SelFs, <<>>) /\ [][NextModal]_vars

\* The search history, on the small disk: the user expands and collapses,
\* filters, leaves the filter, and walks up and down the history.
NextHistory ==
  \/ KeySpace
  \/ UpdateChildrenLoadedMsg
  \/ KeySlash
  \/ FilterEnter
  \/ FilterEsc
  \/ FilterUp
  \/ FilterDown

SpecHistory == InitOn(SmallFs) /\ [][NextHistory]_vars

\* ------------------------------------------------------------------- properties
Item(path) == items[FindPath(items, path)]

InStore(path) == FindPath(items, path) # 0

IsDirItem(path) == FindDir(items, path) # 0

\* the indices of the non-ignored entries of the store below a directory
NonIgnoredBelow(its, dirPath) ==
  {i \in 1..Len(its) : Under(its[i].Path, dirPath) /\ ~its[i].GitIgnored}

\* the directories strictly between a path and the working directory
AncestorsOf(path) ==
  {SubSeq(path, 1, k - 1) : k \in {j \in (Len(cwd) + 2)..Len(path) : path[j] = Sep}}

SelectionOps == {"toggle", "selectAll", "deselectAll", "selectByExtension"}

\* the directories of the store a selection operation touched: a path it was
\* applied to, a directory above such a path, a directory below it
TouchedDirs ==
  {i \in 1..Len(items) :
     /\ items[i].IsDir
     /\ \E p \in last.paths :
          \/ items[i].Path = p
          \/ Under(p, items[i].Path)
          \/ Under(items[i].Path, p)}

\* C1 (as stated in the specification): after a selection operation, every
\* directory it touched that has loaded children is selected if and only if
\* it has a non-ignored descendant in the store and all of them are selected.
C1_CascadeIff ==
  (last.op \in SelectionOps /\ last.flag) =>
    \A i \in TouchedDirs :
      (items[i].ChildrenLoaded /\ getAllDescendants(items, items[i].Path) # {}) =>
        (items[i].Selected <=>
           /\ NonIgnoredBelow(items, items[i].Path) # {}
           /\ \A j \in NonIgnoredBelow(items, items[i].Path) : items[j].Selected)

\* C1 (amended): after a selection operation, every directory it touched that
\* has at least one non-ignored descendant in the store is selected if and
\* only if all its non-ignored descendants in the store are selected.
C1_CascadeConsistent ==
  (last.op \in SelectionOps /\ last.flag) =>
    \A i \in TouchedDirs :
      NonIgnoredBelow(items, items[i].Path) # {} =>
        (items[i].Selected <=>
           \A j \in NonIgnoredBelow(items, items[i].Path) : items[j].Selected)

\* a toggle of the file two levels down has made both directories above it
\* selected
C1_Witness ==
  /\ last.op = "toggle" /\ last.flag /\ last.path = pADN
  /\ Item(pAD).Selected /\ Item(pA).Selected

\* C2: after any sequence of root load, expansions and collapses, deliveries
\* of lazy-load results (several for one directory included) and searches that
\* load directories synchronously, no two entries of the store have the same
\* path.
C2_UniquePaths == Cardinality(PathsOf(items)) = Len(items)

\* the same load result for /w/a/d, holding the file created at run time, has
\* been delivered a second time
C2_Witness ==
  /\ last.op = "merge" /\ last.flag /\ last.path = pAD
  /\ InStore(pADN) /\ last.paths = {}

\* C3: an entry of the store is in the visibility projection if and only if
\* every directory between it and the working directory is in the store and
\* expanded; the children of the working directory are always in it.
C3_Visibility ==
  \A i \in 1..Len(items) :
    /\ (items[i].Path \in PathsOf(VisibleItems(items))) <=>
         \A A \in AncestorsOf(items[i].Path) : IsDirItem(A) /\ Item(A).Expanded
    /\ Dir(items[i].Path) = cwd => items[i].Path \in PathsOf(list)

\* /w/a/d/x/g is in the store below the expanded /w/a/d/x, /w/a/d above it is
\* collapsed and the list does not show g
C3_Witness ==
  /\ InStore(pADXG) /\ Item(pADX).Expanded /\ ~Item(pAD).Expanded
  /\ Item(pA).Expanded /\ pADXG \notin PathsOf(list) /\ pAD \in PathsOf(list)

\* C4: an ignored entry is never selected, whatever toggles and selectAll
\* were applied to it or around it.
C4_IgnoredNeverSelected ==
  \A i \in 1..Len(items) : isGitIgnored(items[i].Path) => ~items[i].Selected

\* Tab was pressed with the cursor on the ignored /w/a/d/x.t, in a selected
\* directory
C4_Witness ==
  /\ last.op = "toggle" /\ last.path = pADT /\ ~last.flag
  /\ Item(pAD).Selected /\ ~Item(pADT).Selected

\* an entry the search matched: by its name, or by its content
IsMatch(it, query) ==
  Contains(ToLower(it.Name), ToLower(query)) \/ it.MatchesContent

\* C5: after a search with a non-empty query that returned results, every
\* directory between a match of the result list and the working directory is
\* in the result list, and its entry there has Expanded = TRUE.
C5_AncestorsExpandedInResults ==
  (last.op = "search" /\ last.flag) =>
    \A k \in 1..Len(list) :
      IsMatch(list[k], last.path) =>
        \A A \in AncestorsOf(list[k].Path) :
          \E r \in 1..Len(list) : list[r].Path = A /\ list[r].Expanded

\* C6: a load result that was merged before is merged again without effect:
\* the store after the second merge equals the store before it, and the
\* directory still has ChildrenLoaded = TRUE.
C6_SecondMergeNoOp ==
  [][(last'.op = "merge" /\ last'.flag) =>
       /\ items' = items
       /\ items'[FindPath(items', last'.path)].ChildrenLoaded]_vars

\* the result holding /w/a/d/x/g has been delivered twice for /w/a/d/x
C6_Witness ==
  /\ last.op = "merge" /\ last.flag /\ last.path = pADX
  /\ InStore(pADXG) /\ Item(pADX).ChildrenLoaded

C8_MergeKeepsSelection ==
  [][(last'.op = "merge" /\ Item(last'.path).Selected) =>
       /\ items'[FindPath(items', last'.path)].Selected
       /\ \A i \in 1..Len(items') :
            items'[i].Path \in last'.paths => ~items'[i].Selected]_vars

\* /w/a/d was selected while the store held nothing below it; the merge has
\* added n.Go, unselected
C8_Witness ==
  /\ last.op = "merge" /\ last.path = pAD /\ pADN \in last.paths
  /\ \A i \in getAllDescendants(items, pAD) : items[i].Path \in last.paths
  /\ Item(pAD).Selected /\ ~Item(pADN).Selected

\* C9: a toggle on a non-ignored directory gives the directory the negation
\* of its value and gives the same value to every non-ignored entry of the
\* store below it, at any depth; selectAll, which forces TRUE, leaves every
\* non-ignored directory of the list and the non-ignored entries below it
\* selected.
C9_DirToggleCascades ==
  [][/\ (last'.op = "toggle" /\ last'.flag /\ IsDirItem(last'.path)) =>
          LET v == ~Item(last'.path).Selected
          IN  /\ items'[FindPath(items', last'.path)].Selected = v
              /\ \A i \in 1..Len(items') :
                   (Under(items'[i].Path, last'.path) /\ ~items'[i].GitIgnored)
                     => items'[i].Selected = v
     /\ last'.op = "selectAll" =>
          \A p \in last'.paths :
            IsDirItem(p) =>
              /\ items'[FindPath(items', p)].Selected
              /\ \A i \in 1..Len(items') :
                   (Under(items'[i].Path, p) /\ ~items'[i].GitIgnored)
                     => items'[i].Selected]_vars

\* Tab on /w/a has selected it together with n.Go two levels below, and not
\* the ignored x.t
C9_Witness ==
  /\ last.op = "toggle" /\ last.flag /\ last.path = pA
  /\ Item(pA).Selected /\ InStore(pADN) /\ Item(pADN).Selected
  /\ InStore(pADT) /\ ~Item(pADT).Selected

\* C10: a toggle on a non-ignored file flips the file; the store keeps its
\* entries, only Selected fields change, and the only other entries whose
\* Selected changes are directories above the file; when the file becomes
\* unselected, so does every directory above it.
C10_FileToggleFrame ==
  [][(last'.op = "toggle" /\ last'.flag /\ ~IsDirItem(last'.path)) =>
       LET k == FindPath(items, last'.path)
       IN  /\ Len(items') = Len(items)
           /\ items'[k].Selected = ~items[k].Selected
           /\ \A i \in 1..Len(items) :
                /\ items'[i] = [items[i] EXCEPT !.Selected = items'[i].Selected]
                /\ items'[i].Selected # items[i].Selected =>
                     \/ i = k
                     \/ items[i].IsDir /\ Under(last'.path, items[i].Path)
           /\ ~items'[k].Selected =>
                \A A \in AncestorsOf(last'.path) :
                  IsDirItem(A) => ~items'[FindPath(items', A)].Selected]_vars

\* Ma.go has been deselected in the fully selected /w/a: /w/a is unselected,
\* /w/a/d and n.Go are still selected
C10_Witness ==
  /\ last.op = "toggle" /\ last.flag /\ last.path = pAM
  /\ ~Item(pAM).Selected /\ ~Item(pA).Selected
  /\ Item(pAD).Selected /\ InStore(pADN) /\ Item(pADN).Selected

\* C11: after selectAll, every non-ignored entry that was in the list when
\* selectAll was called is selected.
C11_SelectAllSelectsList ==
  [][last'.op = "selectAll" =>
       \A k \in 1..Len(list) :
         ~isGitIgnored(list[k].Path) =>
           items'[FindPath(items', list[k].Path)].Selected]_vars

\* selectAll ran on a list showing Ma.go, /w/a/d, n.Go and the ignored x.t:
\* the first three are selected, x.t is not
C11_Witness ==
  /\ last.op = "selectAll" /\ last.flag
  /\ {pA, pAM, pAD, pADN} \subseteq last.paths
  /\ pADT \in PathsOf(list) /\ ~Item(pADT).Selected
  /\ Item(pAM).Selected /\ Item(pAD).Selected /\ Item(pADN).Selected

\* C12: after deselectAll no entry of the store is selected, visible or not,
\* and the refreshed list shows no selected entry.
C12_DeselectAllClearsStore ==
  last.op = "deselectAll" =>
    /\ \A i \in 1..Len(items) : ~items[i].Selected
    /\ \A k \in 1..Len(list) : ~list[k].Selected

\* deselectAll ran while n.Go and Ma.go were in the store below the collapsed
\* /w/a, out of the list
C12_Witness ==
  /\ last.op = "deselectAll"
  /\ InStore(pADN) /\ ~Item(pA).Expanded
  /\ pADN \notin PathsOf(list) /\ pAM \notin PathsOf(list)
  /\ ~Item(pADN).Selected /\ ~Item(pAM).Selected

\* an extension with its leading dot
Dotted(ext) == IF ext # <<>> /\ ext[1] = Dot THEN ext ELSE <<Dot>> \o ext

\* the files of a store whose path ends with the dotted extension, compared
\* without regard to case
FilesWithExtension(its, ext) ==
  {i \in 1..Len(its) :
     ~its[i].IsDir /\ HasSuffix(ToLower(its[i].Path), ToLower(Dotted(ext)))}

\* C13 (as stated in the specification): selectByExtension(ext) selects every
\* file of the store whose path ends with the dotted extension, compared
\* case-insensitively, and "go" and ".go" give the same store.
C13_SelectsEveryFileWithExtension ==
  [][last'.op = "selectByExtension" =>
       /\ \A i \in FilesWithExtension(items', last'.path) : items'[i].Selected
       /\ selectByExtension(items, <<103, 111>>).items =
            selectByExtension(items, <<46, 103, 111>>).items]_vars

\* C13 (amended): selectByExtension(ext) selects every non-ignored file of the
\* store whose path ends with the dotted extension, compared
\* case-insensitively, and leaves the ignored ones unselected; "go" and ".go"
\* give the same store.
C13_SelectsNonIgnoredFilesWithExtension ==
  [][last'.op = "selectByExtension" =>
       /\ \A i \in FilesWithExtension(items', last'.path) :
            items'[i].Selected <=> ~items'[i].GitIgnored
       /\ selectByExtension(items, <<103, 111>>).items =
            selectByExtension(items, <<46, 103, 111>>).items]_vars

\* selectByExtension(".GO") has selected Ma.go and n.Go
C13_Witness ==
  /\ last.op = "selectByExtension" /\ last.path = <<46, 71, 79>> /\ last.flag
  /\ InStore(pADN) /\ Item(pADN).Selected /\ Item(pAM).Selected

\* C14: collapsing an expanded directory D removes exactly D's descendants
\* from the list, and expanding D again, with the store as the collapse left
\* it, shows the list that was shown before the collapse: the same entries in
\* the same order, the directories below D as expanded as they were.
C14_CollapseExpandRoundTrip ==
  [][last'.op = "collapse" =>
       LET D == last'.path
           i == FindPath(items', D)
       IN  /\ Item(D).Expanded /\ ~items'[i].Expanded
           /\ PathSeq(list') = SelectSeq(PathSeq(list), LAMBDA p : ~Under(p, D))
           /\ \A k \in 1..Len(list') :
                list'[k].Path # D => list'[k] = list[FindPath(list, list'[k].Path)]
           /\ flipExpanded(items', i) = items
           /\ VisibleItems(flipExpanded(items', i)) = list]_vars

\* /w/a has been collapsed while /w/a/d below it is expanded and loaded
C14_Witness ==
  /\ last.op = "collapse" /\ last.path = pA
  /\ Item(pAD).Expanded /\ Item(pAD).ChildrenLoaded
  /\ PathsOf(list) = {pA, pU}
  /\ {pAM, pAD, pADX, pADT} \subseteq PathsOf(VisibleItems(flipExpanded(items, FindPath(items, pA))))

\* C15: every entry whose parent directory is an entry of the store has the
\* parent's depth plus 1, and every direct child of the working directory has
\* depth 0, whether LoadFiles or a lazy load created the entry.
C15_DepthConsistent ==
  \A i \in 1..Len(items) :
    /\ Dir(items[i].Path) = cwd => items[i].Depth = 0
    /\ InStore(Dir(items[i].Path)) =>
         items[i].Depth = Item(Dir(items[i].Path)).Depth + 1

Walked(f) ==
  {p \in f :
     /\ ~isHiddenFile(Base(p))
     /\ \A a \in AncestorsOf(p) :
          ~isHiddenFile(Base(a)) /\ ~isGitIgnored(a) /\ a \notin Unreadable}

C19_MergeForCollapsedDirectory ==
  [][(last'.op = "merge" /\ ~Item(last'.path).Expanded) =>
       LET D == last'.path
           i == FindPath(items', D)
           loaded == {c \in fs : Dir(c) = D /\ ~isHiddenFile(Base(c))}
       IN  /\ items'[i].ChildrenLoaded /\ ~items'[i].Expanded
           /\ PathsOf(items') = PathsOf(items) \cup loaded
           /\ last'.paths = loaded \ PathsOf(items)
           /\ last'.paths \cap PathsOf(list') = {}
           /\ \A c \in last'.paths :
                ParentsExpanded(items', Dir(D)) =>
                  isVisible(flipExpanded(items', i), items'[FindPath(items', c)])]_vars

\* the load of /w/a/d was merged while /w/a/d was collapsed below the expanded
\* /w/a: n.Go is in the store and not in the list
C19_Witness ==
  /\ last.op = "merge" /\ last.path = pAD /\ pADN \in last.paths
  /\ ~Item(pAD).Expanded /\ Item(pAD).ChildrenLoaded /\ Item(pA).Expanded
  /\ InStore(pADN) /\ pADN \notin PathsOf(list)
  /\ pADN \in PathsOf(VisibleItems(flipExpanded(items, FindPath(items, pAD))))

\* the disks a load command dispatched earlier can have read: the disk of now
\* without some of the files created while the program runs
DisksRead == {f \in SUBSET fs : fs \ LatePaths \subseteq f}

\* the childrenLoadedMsg values that can be delivered for an outstanding load
\* of a directory
ResultsFor(path) ==
  {[parentPath |-> path, children |-> LoadDirectoryChildren(f, path).children] :
     f \in {g \in DisksRead : ~LoadDirectoryChildren(g, path).err}}

\* the pairs of results outstanding together: of two directories, or of one
\* directory loaded twice
OutstandingPairs ==
  {pq \in BagToSet(cmds) \X BagToSet(cmds) :
     pq[1] # pq[2] \/ CopiesIn(pq[1], cmds) >= 2}

\* a store without the order of its entries
StoreView(its) ==
  {[Path |-> its[i].Path, Selected |-> its[i].Selected,
    Expanded |-> its[i].Expanded, ChildrenLoaded |-> its[i].ChildrenLoaded] :
     i \in 1..Len(its)}

\* the store after two results were merged one after the other
MergeBoth(its, m1, m2) ==
  MergeChildren(MergeChildren(its, m1.parentPath, m1.children),
                m2.parentPath, m2.children)

\* C20: the results of the loads outstanding together, merged in either order,
\* leave stores with the same paths and, for each path, the same Selected,
\* Expanded and ChildrenLoaded; the stores have no path twice, so they differ
\* in the order of their entries at most.
C20_DeliveryOrderIndependent ==
  \A pq \in OutstandingPairs :
    \A m1 \in ResultsFor(pq[1]) : \A m2 \in ResultsFor(pq[2]) :
      /\ StoreView(MergeBoth(items, m1, m2)) = StoreView(MergeBoth(items, m2, m1))
      /\ Len(MergeBoth(items, m1, m2)) = Len(MergeBoth(items, m2, m1))
      /\ Cardinality(PathsOf(MergeBoth(items, m1, m2))) = Len(MergeBoth(items, m1, m2))

\* two loads of /w/a/d are outstanding, one of which may have read the
\* directory before n.Go was created, and /w/a/d is selected
C20_Witness ==
  /\ CopiesIn(pAD, cmds) = 2
  /\ pADN \in fs /\ ~InStore(pADN)
  /\ Item(pAD).Selected /\ ~Item(pAD).ChildrenLoaded
  /\ Cardinality(ResultsFor(pAD)) >= 2

\* the entries of a store whose name contains the query, ignoring case
NameMatches(its, query) ==
  {its[i].Path : i \in {j \in 1..Len(its) :
                          Contains(ToLower(its[j].Name), ToLower(query))}}

\* the directories of a store above one of a set of paths
DirsAbove(its, paths) ==
  {its[i].Path : i \in {j \in 1..Len(its) :
                          its[j].IsDir /\ \E p \in paths : Under(p, its[j].Path)}}

\* C21: a search by file name with a non-empty query that has matches shows
\* exactly the entries of the store whose name contains the query, ignoring
\* case, and the directories of the store above them.
C21_NameSearchExact ==
  (last.op = "search" /\ last.path # <<>> /\ ~contentSearchMode /\ last.flag) =>
    PathsOf(list) = NameMatches(items, last.path)
                      \cup DirsAbove(items, NameMatches(items, last.path))

\* the files of a store whose name does not contain the query
NotMatchedByName(its, query) ==
  {i \in 1..Len(its) :
     ~its[i].IsDir /\ ~Contains(ToLower(its[i].Name), ToLower(query))}

\* C22: after a search in content mode, a file of the size ceiling or above
\* whose name does not contain the query is not flagged MatchesContent and is
\* not in the results, whatever its content; a file below the ceiling whose
\* content contains the query and whose name does not is in the results with
\* MatchesContent=true; a file matched by name is not flagged.
C22_ContentPass ==
  (last.op = "search" /\ last.path # <<>> /\ contentSearchMode) =>
    \A i \in 1..Len(items) :
      ~items[i].IsDir =>
        IF i \notin NotMatchedByName(items, last.path)
          THEN ~items[i].MatchesContent
        ELSE IF FileSize(items[i].Path) >= MaxContentSize
          THEN /\ ~items[i].MatchesContent
               /\ last.flag => items[i].Path \notin PathsOf(list)
        ELSE Contains(ToLower(FileContent(items[i].Path)), ToLower(last.path)) =>
               /\ items[i].MatchesContent
               /\ \E k \in 1..Len(list) :
                    list[k].Path = items[i].Path /\ list[k].MatchesContent

\* a file the content pass matches for a query: below the size ceiling, the
\* content contains the query and the name does not
IsContentMatch(it, query) ==
  /\ ~it.IsDir
  /\ ~Contains(ToLower(it.Name), ToLower(query))
  /\ it.Path \in fs /\ FileSize(it.Path) < MaxContentSize
  /\ Contains(ToLower(FileContent(it.Path)), ToLower(query))

\* C23: after a search, with a changed query or with the empty query that
\* clears it, an entry of the store has MatchesContent=true only if the query
\* is not empty, content mode is on and the entry is a content match of it.
C23_MatchesContentTransient ==
  last.op = "search" =>
    \A i \in 1..Len(items) :
      items[i].MatchesContent =>
        /\ last.path # <<>>
        /\ contentSearchMode
        /\ IsContentMatch(items[i], last.path)

\* C24: after a search with an empty query the list shows exactly the visible
\* entries of the store as it is now, whatever results it showed before.
C24_EmptyQueryShowsProjection ==
  (last.op = "search" /\ last.path = <<>>) => list = VisibleItems(items)

\* the search was cleared after an earlier search had expanded and loaded
\* /w/a (no load was ever dispatched): the list shows /w/a/d, which matched
\* no query
C24_Witness ==
  /\ last.op = "search" /\ last.path = <<>>
  /\ cmds = EmptyBag /\ merged = {}
  /\ Item(pA).Expanded /\ Item(pA).ChildrenLoaded /\ ~Item(pAD).Expanded
  /\ PathsOf(list) = {pA, pAM, pAD}

\* the entries of a store that match a query: by name, or in content mode by
\* content
Matches(its, query, csm) ==
  NameMatches(its, query) \cup
    {its[i].Path : i \in {j \in 1..Len(its) : csm /\ IsContentMatch(its[j], query)}}

\* the entries of a store a search for the query can show: the matches and
\* the directories above them
Shown(its, query, csm) ==
  Matches(its, query, csm) \cup DirsAbove(its, Matches(its, query, csm))

\* C25 (as stated in the specification): after a search with a non-empty
\* query the list holds no entry that is neither a match of this query nor a
\* directory above one; when the query has no match the list holds none of
\* the earlier results (it is empty or the plain projection of the store).
C25_PreviousMatchesDiscarded ==
  (last.op = "search" /\ last.path # <<>>) =>
    \/ /\ Matches(items, last.path, contentSearchMode) # {}
       /\ PathsOf(list) \subseteq Shown(items, last.path, contentSearchMode)
    \/ /\ Matches(items, last.path, contentSearchMode) = {}
       /\ list \in {<<>>, VisibleItems(items)}

\* C25 (amended): a search with a non-empty query that matches an entry of
\* the store replaces the items of the list: every entry of the list is then
\* a match of this query or a directory above one.  A search whose query
\* matches no entry of the store leaves the list as it was, earlier results
\* included.
C25_ResultsReplaceOrViewKept ==
  [][(last'.op = "search" /\ last'.path # <<>>) =>
       /\ last'.flag <=> Matches(items, last'.path, contentSearchMode) # {}
       /\ last'.flag =>
            PathsOf(list') \subseteq Shown(items', last'.path, contentSearchMode)
       /\ ~last'.flag => list' = list /\ PathsOf(items') = PathsOf(items)]_vars

\* a search for "q" by name found nothing and the list still shows the results
\* of an earlier search for "x"
C25_Witness ==
  /\ last.op = "search" /\ last.path = <<113>> /\ ~last.flag /\ ~contentSearchMode
  /\ PathsOf(list) = {pA, pAD, pADT}
  /\ pAM \in PathsOf(VisibleItems(items))

\* the entries of a store whose name is the query, ignoring case
NamedExactly(its, query) ==
  {its[i].Path : i \in {j \in 1..Len(its) : ToLower(its[j].Name) = ToLower(query)}}

\* the files among them
FilesNamedExactly(its, query) ==
  {p \in NamedExactly(its, query) : FindDir(its, p) = 0}

\* C26 (as stated in the specification): when an entry of the store, file or
\* directory, has the query as name, ignoring case, the custom search shows
\* exactly the entries with that name and the directories above them.
C26_ExactEntriesOnly ==
  (last.op = "customSearch" /\ last.path # <<>>
     /\ NamedExactly(items, last.path) # {}) =>
    PathsOf(list) = NamedExactly(items, last.path)
                      \cup DirsAbove(items, NamedExactly(items, last.path))

\* C26 (amended): when a file of the store has the query as name, ignoring
\* case, the custom search shows exactly the files with that name and the
\* directories above them; a file whose name only contains the query is not
\* shown.  A directory with the query as name does not count: without such a
\* file the search goes on to the files whose name contains the query.
C26_ExactFilesOnly ==
  (last.op = "customSearch" /\ last.path # <<>>) =>
    /\ FilesNamedExactly(items, last.path) # {} =>
         /\ PathsOf(list) = FilesNamedExactly(items, last.path)
                              \cup DirsAbove(items, FilesNamedExactly(items, last.path))
         /\ last.paths = FilesNamedExactly(items, last.path)
    /\ (FilesNamedExactly(items, last.path) = {} /\ last.flag
          /\ NameMatches(items, last.path) \ PathsOf(SelectSeq(items, LAMBDA it : it.IsDir)) # {}) =>
         PathsOf(list) \ PathsOf(SelectSeq(items, LAMBDA it : it.IsDir))
           = NameMatches(items, last.path) \ PathsOf(SelectSeq(items, LAMBDA it : it.IsDir))

\* the custom search for "GO" shows the file go below its directories and not
\* Ma.go, whose name contains the query
C26_Witness ==
  /\ last.op = "customSearch" /\ last.path = <<71, 79>> /\ last.flag
  /\ PathsOf(list) = {pA, pAD, pADG}
  /\ pAM \in NameMatches(items, last.path)

\* C27: the list keeps the order of the store: its paths are the paths of the
\* store, in the order of the store, with some left out; an entry a merge
\* appended is shown where it stands in the store, not next to its directory.
C27_ListInStoreOrder ==
  /\ PathSeq(list) = SelectSeq(PathSeq(items), LAMBDA p : p \in PathsOf(list))
  /\ \A k \in 1..Len(list) : \A l \in 1..Len(list) :
       k < l => FindPath(items, list[k].Path) < FindPath(items, list[l].Path)

\* the merged n.Go is shown last, after /w/u, and its directory /w/a/d before
\* /w/u
C27_Witness ==
  /\ {pAD, pU, pADN} \subseteq PathsOf(list)
  /\ FindPath(list, pAD) < FindPath(list, pU)
  /\ FindPath(list, pU) < FindPath(list, pADN)
  /\ FindPath(list, pADN) = Len(list)

\* C28: when the write to the clipboard fails on enter, the failure is added
\* to the error list, the program does not quit, and the store, with the
\* selection of its entries, and the list are as before.
C28_ClipboardFailureKeepsSession ==
  [][(last'.op \in {"enter", "quit"} /\ last'.flag) =>
       /\ last'.op # "quit"
       /\ errors' = Append(errors, ClipboardError)
       /\ items' = items
       /\ list' = list]_vars

\* the write of the selected Ma.go failed: the error is listed, Ma.go is
\* still selected and the program runs
C28_Witness ==
  /\ last.op = "enter" /\ last.flag /\ last.paths = {pAM}
  /\ errors = <<ClipboardError>>
  /\ Item(pAM).Selected

NewlyExpanded ==
  {i \in 1..Len(items) :
     /\ items[i].IsDir /\ ~items[i].Expanded
     /\ i <= Len(items') /\ items'[i].Path = items[i].Path
     /\ items'[i].Expanded}

\* C31: a step dispatches a load request only if it is an expand action that
\* turns Expanded of a directory D with ChildrenLoaded=false from false to
\* true, and then it dispatches exactly one request, for D; a collapse, the
\* expansion of a directory with ChildrenLoaded=true, the delivery of a load
\* result and the delivery of a load failure dispatch none.
C31_LoadDispatchedByFirstExpandOnly ==
  [][IF /\ last'.op = "expand"
        /\ \E i \in NewlyExpanded :
             items[i].Path = last'.path /\ ~items[i].ChildrenLoaded
       THEN cmds' = cmds (+) SetToBag({last'.path})
       ELSE \A p \in KnownPaths : CopiesIn(p, cmds') <= CopiesIn(p, cmds)]_vars

\* /w/a, loaded earlier, was collapsed and expanded again while the load of
\* /w/a/d is outstanding: no request for /w/a was dispatched
C31_Witness ==
  /\ last.op = "expand" /\ last.path = pA /\ ~last.flag
  /\ Item(pA).ChildrenLoaded /\ Item(pA).Expanded
  /\ CopiesIn(pAD, cmds) = 1 /\ CopiesIn(pA, cmds) = 0

\* C32: the result list a search put into the list widget is in ascending
\* order of path, byte by byte, and every directory in it comes before
\* every one of its descendants in it.
C32_ResultsSortedByPath ==
  (last.op \in {"search", "customSearch"} /\ last.flag) =>
    /\ \A i, j \in 1..Len(list) :
         i < j => StrLess(list[i].Path, list[j].Path)
    /\ \A i, j \in 1..Len(list) :
         (list[i].IsDir /\ hasDirPrefix(list[j].Path, list[i].Path)) => i < j

\* the search for "x" found /w/a/d/x.t in the first loop and added /w/a and
\* /w/a/d in the second: the directories come first
C32_Witness ==
  /\ last.op = "search" /\ last.flag /\ last.path = <<120>>
  /\ Len(list) = 3
  /\ list[1].Path = pA /\ list[2].Path = pAD /\ list[3].Path = pADT

\* the operations outside a search that change the store
MutatingOps ==
  {"expand", "collapse", "merge", "toggle", "selectAll", "deselectAll",
   "selectByExtension", "applyBookmark"}

\* C33: after an expansion, a collapse, the merge of a load result, a toggle,
\* a selectAll, a deselectAll, a selectByExtension or the application of a
\* bookmark that changed the store, the items of the list widget are exactly
\* the visibility projection of the store as the operation left it, each
\* with the Selected and Expanded the store holds now.
C33_ListRefreshedAfterMutation ==
  [][(last'.op \in MutatingOps /\ items' # items) =>
       list' = VisibleItems(items')]_vars

\* Ma.go was toggled with /w/a/d expanded and x.t loaded: the list is the
\* projection of the store and shows Ma.go selected
C33_Witness ==
  /\ last.op = "toggle" /\ last.path = pAM /\ last.flag
  /\ Item(pAM).Selected
  /\ InStore(pADT) /\ Item(pAD).Expanded
  /\ list = VisibleItems(items)
  /\ \E k \in 1..Len(list) : list[k].Path = pAM /\ list[k].Selected

\* C34: in every reachable state, the results of a search included, each
\* entry of the list widget has the Selected and the Expanded of the entry
\* of the store with the same path.
C34_ListAgreesWithStore ==
  \A k \in 1..Len(list) :
    InStore(list[k].Path) =>
      /\ list[k].Selected = Item(list[k].Path).Selected
      /\ list[k].Expanded = Item(list[k].Path).Expanded

\* the directories of the new store above an entry the search matched
AboveMatch(query) ==
  {D \in PathsOf(items') :
     \E j \in 1..Len(items') :
       IsMatch(items'[j], query) /\ Under(items'[j].Path, D)}

\* C35: a search, by name or by content and whatever its query, leaves
\* Selected of every entry as it was.  The store changes in three ways
\* only: Expanded of a directory above a match goes to true, the children
\* of such a directory are loaded (ChildrenLoaded goes to true, the
\* children the store lacked are appended, unselected), and MatchesContent
\* is set or cleared.
C35_SearchFrame ==
  [][last'.op = "search" =>
       /\ Len(items') >= Len(items)
       /\ \A i \in 1..Len(items) :
            /\ items'[i].Selected = items[i].Selected
            /\ [items'[i] EXCEPT !.Expanded = FALSE, !.ChildrenLoaded = FALSE,
                                 !.MatchesContent = FALSE]
                 = [items[i] EXCEPT !.Expanded = FALSE, !.ChildrenLoaded = FALSE,
                                    !.MatchesContent = FALSE]
            /\ items'[i].Expanded # items[i].Expanded =>
                 items'[i].Expanded /\ items[i].Path \in AboveMatch(last'.path)
            /\ items'[i].ChildrenLoaded # items[i].ChildrenLoaded =>
                 items'[i].ChildrenLoaded /\ items[i].Path \in AboveMatch(last'.path)
       /\ \A i \in (Len(items) + 1)..Len(items') :
            /\ ~items'[i].Selected
            /\ Dir(items'[i].Path) \in AboveMatch(last'.path)
            /\ items'[i].Path \in fs]_vars

\* the search for "x", in content mode, came with Ma.go selected: it found
\* x.t, /w/a/d above it is expanded and loaded, and Ma.go is still selected
\* while the loaded x.t is not
C35_Witness ==
  /\ last.op = "search" /\ last.path = <<120>> /\ last.flag
  /\ contentSearchMode
  /\ Item(pAM).Selected /\ ~Item(pA).Selected
  /\ Item(pAD).Expanded /\ Item(pAD).ChildrenLoaded
  /\ InStore(pADT) /\ ~Item(pADT).Selected

\* ------------------------------------------------------------ bookmarks

\* C36: the bookmarks file held pairwise distinct names, and after every
\* save, rename and delete no two bookmarks in memory have the same name,
\* a rename to the name of another bookmark included.
C36_NamesDistinct ==
  \A j, k \in 1..Len(bookmarkStore) :
    bookmarkStore[j].Name = bookmarkStore[k].Name => j = k

\* "3" was renamed to "1" while a bookmark "1" existed: one bookmark "1" is
\* left, with the file paths of the renamed one, and "2" is still there
C36_Witness ==
  /\ last.op = "modalEnter" /\ last.path = <<49>> /\ ~last.flag
  /\ textInputPurpose = "rename_bookmark" /\ tempBookmarkName = <<51>>
  /\ Len(bookmarkStore) = 2
  /\ GetBookmark(bookmarkStore, <<49>>) # 0
  /\ bookmarkStore[GetBookmark(bookmarkStore, <<49>>)].FilePaths
       = LoadBookmarks[3].FilePaths
  /\ GetBookmark(bookmarkStore, <<50>>) # 0

C38_HistoryIndexInRange ==
  /\ 0 <= searchHistoryIndex
  /\ searchHistoryIndex <= Len(searchHistory)
  /\ last.op # "panic"

\* "a" and then "x" were searched and the index is 1 after a step up from
\* 2 or down from 0: the step read "x", the last entry of the history
C38_Witness ==
  /\ searchHistory = <<<<97>>, <<120>>>>
  /\ searchHistoryIndex = 1
  /\ last.op = "search" /\ last.path = <<120>>
  /\ filtering

\* ------------------------------------------------------ text input modal

\* the operations that are not key presses: messages of the runtime, the
\* creation of a file, and the methods no key is bound to
NotKeys == {"merge", "errMsg", "fsCreate", "selectByExtension", "customSearch"}

\* C39: while the text input modal is shown, a key press leaves Selected,
\* Expanded and ChildrenLoaded of every entry as they were, dispatches no
\* load and does not quit; "esc" closes the modal and leaves the bookmarks
\* as they were; "enter" closes the modal whether the bookmark operation
\* succeeded or failed.
C39_ModalFrame ==
  [][(showTextInputModal /\ last'.op \notin NotKeys) =>
       /\ Len(items') = Len(items)
       /\ \A i \in 1..Len(items) :
            /\ items'[i].Path = items[i].Path
            /\ items'[i].Selected = items[i].Selected
            /\ items'[i].Expanded = items[i].Expanded
            /\ items'[i].ChildrenLoaded = items[i].ChildrenLoaded
       /\ cmds' = cmds
       /\ last'.op # "quit"
       /\ last'.op = "modalEsc" =>
            ~showTextInputModal' /\ bookmarkStore' = bookmarkStore
       /\ last'.op = "modalEnter" => ~showTextInputModal']_vars

\* with /w/a selected and its load in flight, the "enter" of the modal for
\* a new bookmark "1" failed at the write of the file: the error is listed
\* and the modal is closed
C39_Witness ==
  /\ last.op = "modalEnter" /\ last.path = <<49>> /\ last.flag
  /\ textInputPurpose = "new_bookmark"
  /\ ~showTextInputModal
  /\ errors = <<BookmarkError>>
  /\ Item(pA).Selected /\ Item(pA).Expanded
  /\ InFlight = 1
====
